---- MODULE Spec2Model ----
(***************************************************************************)
(* Model of the multi-agent orchestration core of the narrative service:   *)
(* AgentService (services/agents.py), AgentOrchestrator                    *)
(* (ai/agents/orchestrator.py), the fallback policy (ai/error_handling.py) *)
(* and the character state update (services/character.py).                 *)
(*                                                                         *)
(* Scheduling.  Every handler is an asyncio coroutine on one event loop.   *)
(* A coroutine gives up the loop only where it awaits something that is    *)
(* not ready: in this code the completion-provider calls (llm.ainvoke in   *)
(* BaseAgent.run, chain.ainvoke for the synthesis).  Every other await is  *)
(* on a coroutine whose body makes synchronous Session calls only, which   *)
(* run to completion without yielding.  An action of this model is         *)
(* therefore the code that runs between two provider calls; requests       *)
(* interleave at provider calls and nowhere else.                          *)
(*                                                                         *)
(* Storage.  Each request has its own Session (database.get_db); an        *)
(* orchestrator keeps the Session of the request that constructed it.  A   *)
(* query sees every row committed before it.  Character objects changed    *)
(* in memory and not committed stay in their Session until it commits or   *)
(* is closed (`session`).  Rows carry `run`, the request that stored       *)
(* them (0 for rows stored before), which the program does not keep.       *)
(*                                                                         *)
(* Text is a sequence of strings; user inputs and option descriptions are  *)
(* sequences of one-character strings so that lower-casing, prefix tests   *)
(* and slicing are computed as the code computes them.                     *)
(***************************************************************************)
EXTENDS Integers, Sequences, FiniteSets, TLC

\* ---------------------------------------------------------------- bounds
MaxRequests == 2       \* requests (continuations, suggestions) per behaviour
MaxClears == 1         \* calls of clear_orchestrator_cache per behaviour
MaxOptions == 3        \* longest narrative_options list the provider returns
MaxResets == 1         \* calls of reset_metrics per behaviour
MaxRuns == 2           \* agent runs and fallback calls observed per behaviour
MaxHistory == 12       \* longest change history get_character_history returns

EmptyDict == << >>

\* Python None / a present value, for fields that may be None
NoneV == << >>
Some(x) == <<x>>
IsNone(v) == v = << >>
The(v) == v[1]

StoryIds == {"s1", "s2"}
Requests == 1..MaxRequests

\* ------------------------------------------------------- dict / text helpers
HasKey(d, k) == k \in DOMAIN d

\* d[k] = v  (Python item assignment on a dict)
DictSet(d, k, v) == [x \in (DOMAIN d) \cup {k} |-> IF x = k THEN v ELSE d[x]]

\* for k, v in u.items(): d[k] = v
DictUpdate(d, u) == [x \in (DOMAIN d) \cup (DOMAIN u) |-> IF x \in DOMAIN u THEN u[x] ELSE d[x]]

Lower(c) ==
    CASE c = "A" -> "a" [] c = "B" -> "b" [] c = "C" -> "c" [] c = "D" -> "d" [] c = "E" -> "e"
      [] c = "F" -> "f" [] c = "G" -> "g" [] c = "H" -> "h" [] c = "I" -> "i" [] c = "J" -> "j"
      [] c = "K" -> "k" [] c = "L" -> "l" [] c = "M" -> "m" [] c = "N" -> "n" [] c = "O" -> "o"
      [] c = "P" -> "p" [] c = "Q" -> "q" [] c = "R" -> "r" [] c = "S" -> "s" [] c = "T" -> "t"
      [] c = "U" -> "u" [] c = "V" -> "v" [] c = "W" -> "w" [] c = "X" -> "x" [] c = "Y" -> "y"
      [] c = "Z" -> "z"
      [] OTHER -> c

\* str.lower()
LowerStr(s) == [i \in 1..Len(s) |-> Lower(s[i])]

\* str.startswith(p)
StartsWith(s, p) == Len(s) >= Len(p) /\ SubSeq(s, 1, Len(p)) = p

\* s[n:]
DropFirst(s, n) == SubSeq(s, n + 1, Len(s))

\* s[:n]
TakeFirst(s, n) == SubSeq(s, 1, IF Len(s) < n THEN Len(s) ELSE n)

RECURSIVE LStrip(_)
LStrip(s) == IF s # << >> /\ Head(s) = " " THEN LStrip(Tail(s)) ELSE s

RECURSIVE RStrip(_)
RStrip(s) == IF s # << >> /\ s[Len(s)] = " " THEN RStrip(SubSeq(s, 1, Len(s) - 1)) ELSE s

\* str.strip()
Strip(s) == RStrip(LStrip(s))

ClosingPrompt == "What will you do next?"

Contains(text, piece) == \E i \in 1..Len(text) : text[i] = piece

\* ------------------------------------------------------------ fallback policy
\* Numbers with a fraction are kept in tenths: 1.0 is 10, 5.0 is 50, 0.8 is 8.

character_agent_fallback(error, args) ==
    [reasoning |-> <<"Error occurred: ", error>>,
     action |-> <<"Default action due to processing error">>,
     dialogue |-> <<"...">>,
     emotions |-> [neutral |-> 10],
     motivation |-> <<"Continue participation in the story">>]

memory_curator_fallback(error, args) ==
    [reasoning |-> <<"Error occurred: ", error>>,
     action |-> <<"Default memory curation">>,
     selected_memories |-> << >>,
     relevance_reasoning |-> <<"Unable to retrieve memories due to error">>]

narrative_director_fallback(error, args) ==
    [reasoning |-> <<"Error occurred: ", error>>,
     action |-> <<"Continue existing narrative">>,
     narrative_options |-> << [description |-> <<"Continue current path">>,
                               impact_rating |-> 50, tension_change |-> 0] >>,
     selected_direction |-> <<"Continue with the current narrative thread">>,
     pacing_assessment |-> <<"Maintain current pacing">>,
     tension_level |-> 50]

world_state_fallback_by_error(error, args) ==
    [reasoning |-> <<"Error occurred: ", error>>,
     action |-> <<"Maintain world consistency">>,
     world_effects |-> << <<"No significant effects due to processing error">> >>,
     consistency_issues |-> << >>,
     physics_allowed |-> (error = "timeout")]

world_state_fallback(error, args) ==
    [reasoning |-> <<"Error occurred: ", error>>,
     action |-> <<"Maintain world consistency">>,
     world_effects |-> << <<"No significant effects due to processing error">> >>,
     consistency_issues |-> << >>,
     physics_allowed |-> TRUE]

\* user_input.lower() if not user_input.lower().startswith('i ') else user_input[2:].lower()
EchoInput(user_input) ==
    IF ~StartsWith(LowerStr(user_input), <<"i", " ">>)
    THEN LowerStr(user_input)
    ELSE LowerStr(DropFirst(user_input, 2))

story_continuation_fallback_noprompt(error, args) ==
    <<"You decide to ">> \o EchoInput(args.user_input) \o
    <<".", "\n\n",
      "The world around you responds to your actions. Despite some uncertainty about what happens next, you continue forward with determination.">>

story_continuation_fallback(error, args) ==
    <<"You decide to ">> \o EchoInput(args.user_input) \o
    <<".", "\n\n",
      "The world around you responds to your actions. Despite some uncertainty about what happens next, you continue forward with determination.",
      "\n\n", ClosingPrompt>>

story_suggestions_fallback(error, args) ==
    << <<"Explore your surroundings">>,
       <<"Talk to someone nearby">>,
       <<"Look for clues or useful items">> >>

\* ------------------------------------------------- agents: parse or degrade
\* A provider response is [kind |-> "error"] (the call raised),
\* [kind |-> "unparseable", lines |-> <<...>>] (text JsonOutputParser rejects) or
\* [kind |-> "json", value |-> d] (text that parses to the dict d; the parser
\* checks no schema, so d has whatever keys the provider wrote).

CharacterAgent_process_response(response) ==
    IF response.kind = "json" THEN response.value
    ELSE [reasoning |-> <<"Could not parse structured response">>,
          action |-> <<"React to the situation">>,
          \* the first line of the raw text (lines are shorter than 100 characters)
          dialogue |-> <<response.lines[1]>>,
          emotions |-> [unknown |-> 10],
          motivation |-> <<"Continue participation in the story">>]

WorldStateAgent_process_response(response) ==
    IF response.kind = "json" THEN response.value
    ELSE [reasoning |-> <<"Could not parse structured response">>,
          action |-> <<"Evaluate world consistency">>,
          world_effects |-> << <<"Unknown effects on the world">> >>,
          consistency_issues |-> << >>,
          physics_allowed |-> TRUE]

MemoryCuratorAgent_process_response(response) ==
    IF response.kind = "json" THEN response.value
    ELSE [reasoning |-> <<"Could not parse structured response">>,
          action |-> <<"Curate memories">>,
          selected_memories |-> << >>,
          relevance_reasoning |-> <<"Unable to determine memory relevance">>]

NarrativeDirectorAgent_process_response(response) ==
    IF response.kind = "json" THEN response.value
    ELSE [reasoning |-> <<"Could not parse structured response">>,
          action |-> <<"Direct narrative">>,
          narrative_options |-> << [description |-> <<"Continue current storyline">>,
                                    impact_rating |-> 50, tension_change |-> 0] >>,
          selected_direction |-> <<"Continue with the current narrative thread">>,
          pacing_assessment |-> <<"Maintain current pacing">>,
          tension_level |-> 50]

\* ------------------------------------------------------------ story sections
Max(S) == CHOOSE x \in S : \A y \in S : y <= x

SectionIds(secs, story_id) == {i \in 1..Len(secs) : secs[i].story_id = story_id}

RECURSIVE SortByOrder(_, _)
SortByOrder(secs, ids) ==
    IF ids = {} THEN << >>
    ELSE LET first == CHOOSE i \in ids : \A j \in ids :
                          \/ secs[i].order < secs[j].order
                          \/ (secs[i].order = secs[j].order /\ i <= j)
         IN <<first>> \o SortByOrder(secs, ids \ {first})

\* select(StorySection).where(story_id == ...).order_by(StorySection.order): section ids
get_sections_by_story_id(secs, story_id) == SortByOrder(secs, SectionIds(secs, story_id))

NextOrderNoIncrement(secs, story_id) ==
    IF SectionIds(secs, story_id) = {} THEN 0
    ELSE Max({secs[i].order : i \in SectionIds(secs, story_id)})

\* next_order = max([s.order for s in sections], default=0) + 1
NextOrder(secs, story_id) ==
    (IF SectionIds(secs, story_id) = {} THEN 0
     ELSE Max({secs[i].order : i \in SectionIds(secs, story_id)})) + 1

\* ----------------------------------------------------------------- characters
CharacterIds(chars, story_id) == {i \in 1..Len(chars) : chars[i].story_id = story_id}

\* the ids of S as the query of CharacterService.get_characters_by_story_id
\* lists them: in the order of insertion, which is the order of the ids
RECURSIVE InIdOrder(_)
InIdOrder(S) ==
    IF S = {} THEN << >>
    ELSE LET first == CHOOSE x \in S : \A y \in S : x <= y
         IN <<first>> \o InIdOrder(S \ {first})

\* the default character of generate_story_continuation
Protagonist(story_id) ==
    [story_id |-> story_id,
     name |-> "Protagonist",
     description |-> "The main character of the story, a rebellious figure in a dystopian world.",
     traits |-> [courage |-> 8, intelligence |-> 7, determination |-> 9],
     importance |-> 10]

\* `datetime.utcnow()` in services/character.py, where `import datetime` binds the
\* module: the module has no attribute utcnow, the expression raises
datetime_utcnow == [raised |-> "AttributeError"]

\* utils.db_operation_handler: what the decorated function raises for an
\* exception that is neither SQLAlchemyError nor ValueError
db_operation_handler(raised) == IF raised = "" THEN "" ELSE "HTTPException"

\* CharacterService.update_character_traits on the loaded character object whose
\* traits dict is `traits`.  previous_traits is a shallow copy of the traits dict
\* (line 70), every key of new_traits is assigned into it (lines 73-74), then line
\* 76 evaluates datetime.utcnow(); the CharacterChange row, db.add and db.commit
\* (lines 79-90) run only if that returns.
update_character_traits(traits, character_id, section_id, change_description, new_traits) ==
    LET previous_traits == traits
        updated == DictUpdate(traits, new_traits)
        now == datetime_utcnow
        change == [character_id |-> character_id, section_id |-> section_id,
                   change_description |-> change_description,
                   previous_traits |-> previous_traits, new_traits |-> updated]
    IN IF now.raised # ""
       THEN [raised |-> db_operation_handler(now.raised), previous_traits |-> previous_traits,
             traits |-> updated, changes |-> << >>, committed |-> FALSE]
       ELSE [raised |-> "", previous_traits |-> previous_traits,
             traits |-> updated, changes |-> <<change>>, committed |-> TRUE]

ChangeDescription(user_input) == <<"Character state updated after ">> \o user_input

\* One iteration of the loop of _update_story_state (lines 496-524) for the
\* reaction of character_id.  `mem` maps a character id to the traits of its loaded
\* object.  new_traits = character.traits.copy() is a shallow copy: when the
\* character already has an emotions map, new_traits['emotions'] is that same
\* dict object, and line 508 writes the character's own map too.
UpdateCharacterState(st, character_id, reaction, latest_section, user_input) ==
    IF st.raised # "" \/ ~HasKey(reaction, "emotions") THEN st
    ELSE
    LET before == st.mem[character_id]
        shared == HasKey(before, "emotions")
        emotions == DictUpdate(IF shared THEN before.emotions ELSE EmptyDict, reaction.emotions)
        withEmotions == DictSet(before, "emotions", emotions)
        new_traits == IF HasKey(reaction, "motivation")
                      THEN DictSet(withEmotions, "current_motivation", reaction.motivation)
                      ELSE withEmotions
        loaded == IF shared THEN withEmotions ELSE before
    IN IF IsNone(latest_section)
       THEN [st EXCEPT !.mem[character_id] = loaded]
       ELSE LET u == update_character_traits(loaded, character_id, The(latest_section),
                                             ChangeDescription(user_input), new_traits)
            IN [st EXCEPT !.mem[character_id] = u.traits,
                          !.raised = u.raised,
                          !.changes = st.changes \o u.changes,
                          !.calls = Append(st.calls,
                                [character_id |-> character_id,
                                 section_id |-> The(latest_section),
                                 before |-> before,
                                 previous_traits |-> u.previous_traits,
                                 new_traits |-> new_traits,
                                 after |-> u.traits,
                                 committed |-> u.committed])]

\* _update_story_state: the reactions in the order they were collected
RECURSIVE UpdateStoryState(_, _, _, _, _)
UpdateStoryState(st, order, reactions, latest_section, user_input) ==
    IF order = << >> THEN st
    ELSE UpdateStoryState(
            UpdateCharacterState(st, Head(order), reactions[Head(order)], latest_section, user_input),
            Tail(order), reactions, latest_section, user_input)

\* ------------------------------------------------------------- suggestions
FillerPrefixes ==
    << <<"T", "h", "e", " ", "c", "h", "a", "r", "a", "c", "t", "e", "r", " ", "s", "h", "o", "u", "l", "d", " ">>,
       <<"Y", "o", "u", " ", "s", "h", "o", "u", "l", "d", " ">>,
       <<"T", "h", "e", " ", "p", "r", "o", "t", "a", "g", "o", "n", "i", "s", "t", " ", "s", "h", "o", "u", "l", "d", " ">> >>

VerbAllowlist ==
    << <<"g", "o">>,
       <<"l", "o", "o", "k">>,
       <<"s", "e", "a", "r", "c", "h">>,
       <<"t", "a", "l", "k">>,
       <<"a", "s", "k">>,
       <<"f", "i", "n", "d">>,
       <<"u", "s", "e">>,
       <<"t", "a", "k", "e">>,
       <<"o", "p", "e", "n">>,
       <<"e", "x", "a", "m", "i", "n", "e">>,
       <<"i", "n", "v", "e", "s", "t", "i", "g", "a", "t", "e">>,
       <<"e", "x", "p", "l", "o", "r", "e">>,
       <<"a", "p", "p", "r", "o", "a", "c", "h">>,
       <<"r", "u", "n">>,
       <<"h", "i", "d", "e">>,
       <<"f", "i", "g", "h", "t">> >>

AlternativeVerbs ==
    << <<"E", "x", "p", "l", "o", "r", "e">>,
       <<"I", "n", "v", "e", "s", "t", "i", "g", "a", "t", "e">>,
       <<"C", "h", "e", "c", "k", " ", "o", "u", "t">>,
       <<"L", "o", "o", "k", " ", "f", "o", "r">>,
       <<"T", "a", "l", "k", " ", "t", "o">>,
       <<"S", "e", "a", "r", "c", "h">> >>

RECURSIVE StripPrefixes(_, _)
StripPrefixes(action, prefixes) ==
    IF prefixes = << >> THEN action
    ELSE StripPrefixes(IF StartsWith(action, Head(prefixes))
                       THEN DropFirst(action, Len(Head(prefixes)))
                       ELSE action,
                       Tail(prefixes))

StartsWithVerb(action) ==
    \E i \in 1..Len(VerbAllowlist) : StartsWith(LowerStr(action), VerbAllowlist[i])

\* _convert_to_action: the results random.choice(verbs) can give
convert_to_action(narrative_option) ==
    LET action == StripPrefixes(Strip(narrative_option), FillerPrefixes)
    IN IF ~StartsWithVerb(action)
       THEN {Strip(AlternativeVerbs[i] \o <<" ">> \o action) : i \in 1..Len(AlternativeVerbs)}
       ELSE {Strip(action)}

GenericSuggestions ==
    << <<"Explore your surroundings">>,
       <<"Talk to someone nearby">>,
       <<"Look for clues or useful items">>,
       <<"Try a different approach">>,
       <<"Think about what you've learned so far">> >>

GenericSuggestionFirst(index) == GenericSuggestions[1]

generate_generic_suggestion(index) ==
    IF index < Len(GenericSuggestions)
    THEN GenericSuggestions[index + 1]
    ELSE GenericSuggestions[Len(GenericSuggestions)]

\* the loop over direction_output['narrative_options'] (lines 555-561): the lists
\* of suggestions it can build
RECURSIVE ExtractSuggestions(_, _)
ExtractSuggestions(options, suggestions) ==
    IF options = << >> THEN {suggestions}
    ELSE LET option == Head(options)
         IN IF Len(suggestions) < 3 /\ HasKey(option, "description")
            THEN UNION {ExtractSuggestions(Tail(options), Append(suggestions, action)) :
                          action \in convert_to_action(option.description)}
            ELSE ExtractSuggestions(Tail(options), suggestions)

PadSuggestionsOnce(suggestions) ==
    IF Len(suggestions) < 3
    THEN Append(suggestions, generate_generic_suggestion(Len(suggestions)))
    ELSE suggestions

\* while len(suggestions) < 3: suggestions.append(generic(len(suggestions)))
RECURSIVE PadSuggestions(_)
PadSuggestions(suggestions) ==
    IF Len(suggestions) < 3
    THEN PadSuggestions(Append(suggestions, generate_generic_suggestion(Len(suggestions))))
    ELSE suggestions

\* lines 554-567 of generate_story_suggestions, from the director's output on
SuggestionsFromDirection(direction_output) ==
    LET options == IF HasKey(direction_output, "narrative_options")
                   THEN direction_output.narrative_options ELSE << >>
    IN {TakeFirst(PadSuggestions(x), 3) : x \in ExtractSuggestions(options, << >>)}

NotInitializedSuggestions ==
    << <<"Explore your surroundings">>, <<"Talk to someone nearby">>, <<"Look for clues">> >>

NoSectionSuggestions ==
    << <<"Begin your adventure">>, <<"Explore your surroundings">>, <<"Talk to someone nearby">> >>

\* ------------------------------------------------------------ provider, inputs
UserInputs == {<<"I", " ", "G", "o">>, <<"r", "u", "n">>}

SynthesisTexts == {<<"The door slides open.">>}

ProviderError == [kind |-> "error"]
Unparseable == [kind |-> "unparseable", lines |-> <<"I cannot answer in JSON.">>]
Json(d) == [kind |-> "json", value |-> d]

DirectorResponses ==
    {ProviderError, Unparseable,
     Json([selected_direction |-> <<"Raise the stakes">>, tension_level |-> 70]),
     Json([tension_level |-> 70])}

WorldResponses ==
    {ProviderError, Unparseable,
     Json([world_effects |-> << <<"The lights go out">> >>, physics_allowed |-> TRUE])}

MemoryResponses ==
    {ProviderError, Unparseable,
     Json([selected_memories |-> << >>, relevance_reasoning |-> <<"nothing yet">>])}

CharacterResponses ==
    {ProviderError,
     Json([action |-> <<"steps back">>, emotions |-> [fear |-> 7],
           motivation |-> <<"Get out">>]),
     Json([action |-> <<"waits">>, motivation |-> <<"Stay hidden">>])}

SynthesisResponses ==
    {ProviderError} \cup {[kind |-> "text", text |-> t] : t \in SynthesisTexts}

OptGo == [description |-> <<"Y", "o", "u", " ", "s", "h", "o", "u", "l", "d", " ", "g", "o">>, impact_rating |-> 50]
OptDoor == [description |-> <<"D", "o", "o", "r">>]
OptNoDescription == [impact_rating |-> 30, tension_change |-> 10]

OptionLists ==
    UNION {[1..n -> {OptGo, OptNoDescription}] : n \in 0..MaxOptions} \cup {<<OptDoor>>}

SuggestionResponses ==
    {ProviderError, Unparseable, Json([selected_direction |-> <<"Raise the stakes">>])}
    \cup {Json([narrative_options |-> options]) : options \in OptionLists}

\* ----------------------------------------------------------------- state
VARIABLES
    stories,         \* table stories: story id -> row
    characters,      \* table characters: sequence of rows, the id is the index
    sections,        \* table story_sections: sequence of rows, the id is the index
    changes,         \* table character_changes: sequence of rows
    orchs,           \* every AgentOrchestrator constructed, the id is the index
    orchestrators,   \* AgentService._orchestrators: story id -> orchestrator id, 0 for no entry
    session,         \* per request's Session: the loaded character objects whose traits
                     \* differ from the stored row (character id -> traits)
    req,             \* the requests: position and locals of each handler
    epoch,           \* story id -> number of cache clears that covered it
    clears,          \* calls of clear_orchestrator_cache so far
    metrics,         \* monitoring.agent_metrics: the keys it holds
    resets,          \* calls of reset_metrics so far
    runs,            \* the agents on their own: the calls made so far, with what they gave
    events,          \* table events: sequence of rows, the id is the index
    participants,    \* table event_participants: sequence of rows
    relationships,   \* table entity_relationships: sequence of rows
    last_call,       \* the last call of a service method or tracked operation, with its outcome
    agent_metrics,   \* monitoring.agent_metrics with its counters
    tracked          \* the tracked operations in flight

\* the tables of the event and relationship services and the metrics store
ServiceVars == <<events, participants, relationships, last_call, agent_metrics, tracked>>

vars == <<stories, characters, sections, changes, orchs, orchestrators, session, req,
          epoch, clears, metrics, resets, runs, ServiceVars>>

Rin(traits) ==
    [story_id |-> "s1", name |-> "Rin", description |-> "A scout", traits |-> traits,
     importance |-> 10, run |-> 0]

Kai == [story_id |-> "s1", name |-> "Kai", description |-> "A pilot",
        traits |-> [courage |-> 5], importance |-> 10, run |-> 0]

StoryRow == [genre |-> "cyberpunk", theme |-> "rebellion", setting |-> "Neo-Tokyo"]

PriorSection == [story_id |-> "s1", text |-> <<"You wake up.">>, order |-> 1, run |-> 0]

\* the stored state the service starts from
InitialDBs ==
    { [stories |-> [id \in {"s1"} |-> StoryRow],
       characters |-> << >>, sections |-> << >>],
      [stories |-> [id \in {"s1", "s2"} |-> StoryRow],
       characters |-> <<Rin(EmptyDict)>>, sections |-> <<PriorSection>>],
      [stories |-> [id \in {"s1"} |-> StoryRow],
       characters |-> <<Rin([emotions |-> [fear |-> 2, calm |-> 5]]), Kai>>,
       sections |-> << >>],
      [stories |-> [id \in {"s1"} |-> StoryRow],
       characters |-> <<Rin([emotions |-> [fear |-> 2, calm |-> 5]]), Kai>>,
       sections |-> <<PriorSection>>] }

\* no service call made yet
NoCall == [op |-> "none"]

\* monitoring.py lines 17-24 and reset_metrics lines 219-226: the empty store.
\* operation_times holds, for each operation, the number of timings in its list.
EmptyMetrics ==
    [operation_times |-> EmptyDict, error_counts |-> EmptyDict,
     total_operations |-> 0, total_errors |-> 0, stories |-> EmptyDict]

IdleRequest ==
    [pc |-> "idle", op |-> "none", story_id |-> "", user_input |-> << >>, orch |-> 0,
     proposed_event |-> << >>, active |-> << >>, idx |-> 0, reactions |-> EmptyDict,
     trace |-> << >>,
     ended |-> "", updates |-> << >>, result |-> NoneV, section |-> 0,
     outcome |-> "pending"]

ClosedRequest == [IdleRequest EXCEPT !.pc = "closed"]

Init ==
    /\ \E db \in InitialDBs :
          /\ stories = db.stories
          /\ characters = db.characters
          /\ sections = db.sections
    /\ changes = << >>
    /\ orchs = << >>
    /\ orchestrators = [id \in StoryIds |-> 0]
    /\ session = [r \in Requests |-> EmptyDict]
    /\ req = [r \in Requests |-> IdleRequest]
    /\ epoch = [id \in StoryIds |-> 0]
    /\ clears = 0
    /\ metrics = [operations |-> {}, stories |-> {}]
    /\ resets = 0
    /\ runs = << >>
    /\ events = << >>
    /\ participants = << >>
    /\ relationships = << >>
    /\ last_call = NoCall
    /\ agent_metrics = EmptyMetrics
    /\ tracked = << >>

\* ------------------------------------------------------------ orchestrator
\* AgentOrchestrator.__init__
NewOrchestrator(story_id, owner, ep) ==
    [story_id |-> story_id, owner |-> owner, epoch |-> ep,
     story_data |-> NoneV, character_agents |-> {},
     world_state_agent |-> FALSE, memory_curator_agent |-> FALSE,
     narrative_director_agent |-> FALSE, initialized |-> FALSE]

\* _get_story_data: None, or the story with its sections in order
get_story_data(story_id) ==
    IF story_id \notin DOMAIN stories THEN NoneV
    ELSE Some([genre |-> stories[story_id].genre, theme |-> stories[story_id].theme,
               sections |-> get_sections_by_story_id(sections, story_id)])

InitializeFlagFirst(o) ==
    LET story_data == get_story_data(o.story_id)
    IN IF IsNone(story_data) THEN [o EXCEPT !.story_data = NoneV, !.initialized = TRUE]
       ELSE [o EXCEPT !.story_data = story_data,
                      !.narrative_director_agent = TRUE,
                      !.world_state_agent = TRUE,
                      !.memory_curator_agent = TRUE,
                      !.character_agents = @ \cup CharacterIds(characters, o.story_id),
                      !.initialized = TRUE]

\* initialize() without the call of _initialize_character_agents
InitializeWithoutCharacterAgents(o) ==
    LET story_data == get_story_data(o.story_id)
    IN IF IsNone(story_data) THEN [o EXCEPT !.story_data = NoneV]
       ELSE [o EXCEPT !.story_data = story_data,
                      !.narrative_director_agent = TRUE,
                      !.world_state_agent = TRUE,
                      !.memory_curator_agent = TRUE,
                      !.initialized = TRUE]

\* initialize() without the memory curator
InitializeWithoutMemoryCurator(o) ==
    LET story_data == get_story_data(o.story_id)
    IN IF IsNone(story_data) THEN [o EXCEPT !.story_data = NoneV]
       ELSE [o EXCEPT !.story_data = story_data,
                      !.narrative_director_agent = TRUE,
                      !.world_state_agent = TRUE,
                      !.character_agents = @ \cup CharacterIds(characters, o.story_id),
                      !.initialized = TRUE]

\* initialize(): the orchestrator afterwards
initialize(o) ==
    LET story_data == get_story_data(o.story_id)
    IN IF IsNone(story_data) THEN [o EXCEPT !.story_data = NoneV]
       ELSE [o EXCEPT !.story_data = story_data,
                      !.narrative_director_agent = TRUE,
                      !.world_state_agent = TRUE,
                      !.memory_curator_agent = TRUE,
                      !.character_agents = @ \cup CharacterIds(characters, o.story_id),
                      !.initialized = TRUE]

\* _ensure_initialized
ensure_initialized(o) == IF ~o.initialized THEN initialize(o) ELSE o

CacheMiss(cache, story_id) == 0

\* `if story_id in self._orchestrators: return self._orchestrators[story_id]`
CacheLookup(cache, story_id) == cache[story_id]

\* AgentService._get_orchestrator for request r: the orchestrators, the cache and
\* the id returned.  initialize() makes synchronous Session calls only, so the
\* lookup and the insertion run without another coroutine in between.
get_orchestrator(r, story_id) ==
    IF CacheLookup(orchestrators, story_id) # 0
    THEN [orchs |-> orchs, cache |-> orchestrators, id |-> CacheLookup(orchestrators, story_id)]
    ELSE LET id == Len(orchs) + 1
         IN [orchs |-> Append(orchs, initialize(NewOrchestrator(story_id, r, epoch[story_id]))),
             cache |-> [orchestrators EXCEPT ![story_id] = id],
             id |-> id]

\* _generate_fallback_response
generate_fallback_response(user_input, story_data) ==
    LET genre == IF IsNone(story_data) THEN "science fiction" ELSE The(story_data).genre
        theme == IF IsNone(story_data) THEN "exploration" ELSE The(story_data).theme
    IN <<"\n            ", "You decide to ">> \o EchoInput(user_input) \o
       <<".", "\n\n", "The ", genre, " world around you responds to your actions. As you continue on your journey of ",
         theme, ", you notice new details about your surroundings.", "\n\n",
         ClosingPrompt, "\n        ">>

\* traits of the character objects as the orchestrator's Session holds them
LoadedTraits(o) ==
    [c \in 1..Len(characters) |->
        IF c \in DOMAIN session[o.owner] THEN session[o.owner][c] ELSE characters[c].traits]

\* the part of `mem` that differs from the stored rows
Overlay(mem) ==
    [c \in {x \in DOMAIN mem : mem[x] # characters[x].traits} |-> mem[c]]

NoDefaultCharacter(chars, story_id, r) == << >>

\* the default character is created without the test for existing characters
DefaultCharacterUnchecked(chars, story_id, r) == <<Protagonist(story_id) @@ [run |-> r]>>

\* lines 317-335: the rows request r's continuation adds to table characters
DefaultCharacters(chars, story_id, r) ==
    IF CharacterIds(chars, story_id) = {}
    THEN <<Protagonist(story_id) @@ [run |-> r]>>
    ELSE << >>

\* a stage of the pipeline is entered: an agent (for a character agent, of which
\* character), the synthesis call or the state update
Call(stage, arg) == [stage |-> stage, arg |-> arg]

\* the new row is stored under the first story id of the table
PersistSectionOfFirstStory(r, story_id, text, enforced) ==
    LET first == IF sections = << >> THEN story_id ELSE sections[1].story_id
    IN [sections |-> Append(sections, [story_id |-> first, text |-> text,
                                       order |-> Len(sections) + 1,
                                       run |-> r]),
        section |-> Len(sections) + 1, outcome |-> "ok"]

\* services/agents.py lines 47-63: the section table after the new row, and its id.
\* story_sections.story_id is a foreign key to stories.id; DATABASE_URL decides
\* whether the engine enforces it.  For a story that is not stored, db.commit()
\* raises when it does (`enforced`) and stores the row when it does not.
PersistSection(r, story_id, text, enforced) ==
    IF story_id \notin DOMAIN stories /\ enforced
    THEN [sections |-> sections, section |-> 0, outcome |-> "error"]
    ELSE [sections |-> Append(sections, [story_id |-> story_id, text |-> text,
                                         order |-> NextOrder(sections, story_id),
                                         run |-> r]),
          section |-> Len(sections) + 1, outcome |-> "ok"]

\* ----------------------------------------------------------------- metrics
\* ai/monitoring.py keeps agent_metrics, a dict of dicts.  The tracked code reads
\* no value of it; what decides its control flow is which keys exist:
\* `operations` are the keys of operation_times and of error_counts (created and
\* dropped together), `stories` the pairs <<story key, operation>> for which
\* agent_metrics["stories"][key]["operations"][operation] exists.
NoMetrics == [operations |-> {}, stories |-> {}]

\* track_agent_operation lines 36-72: the wrapper is entered.  story_id is
\* kwargs['story_id'], else args[1] when that is a string: for
\* generate_story_continuation(self, user_input) and
\* _get_narrative_direction(self, user_input) it is the user input; the other
\* tracked operations are called with keyword arguments and have none.
TrackEnter(m, operation_name, story_id) ==
    [operations |-> m.operations \cup {operation_name},
     stories |-> IF IsNone(story_id) THEN m.stories
                 ELSE m.stories \cup {<<The(story_id), operation_name>>}]

\* lines 81-103: the wrapper is left.  agent_metrics["error_counts"][name] (84),
\* agent_metrics["operation_times"][name] (96) and
\* agent_metrics["stories"][story_id]["operations"][name] (100) raise KeyError
\* when the key is gone; from `finally` that replaces the result of the operation.
TrackExitRaises(m, operation_name, story_id) ==
    \/ operation_name \notin m.operations
    \/ ~IsNone(story_id) /\ <<The(story_id), operation_name>> \notin m.stories

\* ---------------------------------------------------------------- actions
\* requests are interchangeable: they start in the order of their numbers
MayStart(r) == req[r].pc = "idle" /\ \A q \in Requests : q < r => req[q].pc # "idle"

\* whether _get_orchestrator or _ensure_initialized calls initialize() for the story
InitializeCalled(story_id) ==
    \/ CacheLookup(orchestrators, story_id) = 0
    \/ ~orchs[CacheLookup(orchestrators, story_id)].initialized

\* the metrics after the initialize() calls of a request's start
TrackInitialize(story_id) ==
    IF InitializeCalled(story_id)
    THEN TrackEnter(metrics, "orchestrator_initialize", NoneV)
    ELSE metrics

\* AgentService.generate_continuation up to the first provider call:
\* _get_orchestrator, generate_story_continuation lines 309-335 and
\* _get_narrative_direction lines 271-287.
StartContinuation(r, story_id, user_input) ==
    /\ MayStart(r)
    /\ LET g == get_orchestrator(r, story_id)
           o == ensure_initialized(g.orchs[g.id])
           entered == TrackEnter(TrackInitialize(story_id), "generate_story_continuation",
                                 Some(user_input))
       IN IF ~o.initialized
          THEN \E enforced \in BOOLEAN :
               LET text == generate_fallback_response(user_input, o.story_data)
                   p == PersistSection(r, story_id, text, enforced)
               IN /\ orchs' = [g.orchs EXCEPT ![g.id] = o]
                  /\ sections' = p.sections
                  /\ req' = [req EXCEPT ![r] =
                        [IdleRequest EXCEPT !.pc = "done", !.op = "continuation",
                            !.story_id = story_id, !.user_input = user_input,
                            !.orch = g.id, !.ended = "NotInitialized",
                            !.result = Some(text),
                            !.section = p.section, !.outcome = p.outcome]]
                  /\ session' = IF p.outcome = "ok" THEN [session EXCEPT ![r] = EmptyDict]
                                ELSE session
                  /\ metrics' = entered
                  /\ UNCHANGED characters
          ELSE LET created == DefaultCharacters(characters, story_id, r)
                   active == IF created # << >> THEN <<Len(characters) + 1>>
                             ELSE InIdOrder(CharacterIds(characters, story_id))
               IN /\ characters' = characters \o created
                  \* create_character commits on the orchestrator's Session
                  /\ session' = IF created # << >>
                                THEN [session EXCEPT ![o.owner] = EmptyDict]
                                ELSE session
                  /\ orchs' = [g.orchs EXCEPT ![g.id] =
                                  [o EXCEPT !.story_data = get_story_data(story_id)]]
                  /\ req' = [req EXCEPT ![r] =
                        [IdleRequest EXCEPT !.pc = "ND", !.op = "continuation",
                            !.story_id = story_id, !.user_input = user_input,
                            !.orch = g.id, !.active = active,
                            !.trace = <<Call("NarrativeDirector", 0)>>]]
                  /\ metrics' = TrackEnter(entered, "get_narrative_direction", Some(user_input))
                  /\ UNCHANGED sections
    /\ orchestrators' = get_orchestrator(r, story_id).cache
    /\ UNCHANGED <<ServiceVars, runs, stories, changes, epoch, clears, resets>>

\* generate_story_continuation is left with `text` through its tracking wrapper
\* (monitoring.py lines 93-112); then services/agents.py lines 47-63.  When the
\* wrapper raises, the operation returns nothing, db_operation_handler answers
\* with an error and no section is stored.  `mem` are the Sessions as the run
\* leaves them.
EndContinuation(r, text, stage, updates, trace, mem) ==
    IF TrackExitRaises(metrics, "generate_story_continuation", Some(req[r].user_input))
    THEN /\ sections' = sections
         /\ req' = [req EXCEPT ![r].pc = "done",
                               ![r].trace = trace,
                               ![r].ended = "Tracking",
                               ![r].updates = updates,
                               ![r].result = NoneV,
                               ![r].section = 0,
                               ![r].outcome = "error"]
         /\ session' = mem
    ELSE LET p == PersistSection(r, req[r].story_id, text, TRUE)
         IN /\ sections' = p.sections
            /\ req' = [req EXCEPT ![r].pc = "done",
                                  ![r].trace = trace,
                                  ![r].ended = stage,
                                  ![r].updates = updates,
                                  ![r].result = Some(text),
                                  ![r].section = p.section,
                                  ![r].outcome = p.outcome]
            \* db.commit() of line 60 expires the objects of the request's Session
            /\ session' = [mem EXCEPT ![r] = EmptyDict]

\* an exception leaves the body of generate_story_continuation in `stage`:
\* agent_error_handler returns the story-continuation fallback
FailContinuation(r, stage, error) ==
    EndContinuation(r, story_continuation_fallback(error, [user_input |-> req[r].user_input]),
                    stage, << >>, req[r].trace, session)

\* what _get_narrative_direction hands back for a provider response
get_narrative_direction(user_input, response) ==
    IF response.kind = "error"
    THEN narrative_director_fallback("provider", [user_input |-> user_input])
    ELSE NarrativeDirectorAgent_process_response(response)

\* what _check_world_consistency hands back for a provider response
check_world_consistency(proposed_event, response) ==
    IF response.kind = "error"
    THEN world_state_fallback("provider", [proposed_event |-> proposed_event])
    ELSE WorldStateAgent_process_response(response)

\* what _get_relevant_memories hands back for a provider response
get_relevant_memories(current_situation, response) ==
    IF response.kind = "error"
    THEN memory_curator_fallback("provider", [current_situation |-> current_situation])
    ELSE MemoryCuratorAgent_process_response(response)

\* The outputs of the narrative director, the world-state agent and the memory
\* curator go into the prompts of later calls and nowhere else; whatever they are
\* (parsed, degraded, fallback) the pipeline moves to the next stage.  The request
\* keeps the director's selected direction while the world-state call is open.

\* narrative_direction.get("selected_direction", user_input)
ProposedEvent(narrative_direction, user_input) ==
    IF HasKey(narrative_direction, "selected_direction")
    THEN narrative_direction.selected_direction
    ELSE user_input

\* _get_narrative_direction returns (or its fallback does); _check_world_consistency
\* runs up to its provider call
NarrativeDirectorReturns(r, response) ==
    /\ req[r].pc = "ND"
    /\ IF TrackExitRaises(metrics, "get_narrative_direction", Some(req[r].user_input))
       THEN /\ FailContinuation(r, "Tracking", "KeyError")
            /\ UNCHANGED metrics
       ELSE /\ req' = [req EXCEPT ![r].pc = "WS",
                          ![r].proposed_event =
                              ProposedEvent(get_narrative_direction(req[r].user_input, response),
                                            req[r].user_input),
                          ![r].trace = Append(@, Call("WorldState", 0))]
            /\ metrics' = TrackEnter(metrics, "check_world_consistency", NoneV)
            /\ UNCHANGED <<sections, session>>
    /\ UNCHANGED <<ServiceVars, runs, stories, characters, changes, orchs, orchestrators, epoch, clears, resets>>

\* _check_world_consistency returns; _get_relevant_memories runs up to its provider call
WorldStateReturns(r, response) ==
    /\ req[r].pc = "WS"
    /\ DOMAIN check_world_consistency(req[r].proposed_event, response) # {}
    /\ IF TrackExitRaises(metrics, "check_world_consistency", NoneV)
       THEN /\ FailContinuation(r, "Tracking", "KeyError")
            /\ UNCHANGED metrics
       ELSE /\ req' = [req EXCEPT ![r].pc = "MC", ![r].proposed_event = << >>,
                                  ![r].trace = Append(@, Call("MemoryCurator", 0))]
            /\ metrics' = TrackEnter(metrics, "get_relevant_memories", NoneV)
            /\ UNCHANGED <<sections, session>>
    /\ UNCHANGED <<ServiceVars, runs, stories, characters, changes, orchs, orchestrators, epoch, clears, resets>>

\* the loop stays on the character it has just called
NextAgentIndexRepeat(active, agents, from) ==
    IF from # 0 THEN from
    ELSE IF \E i \in 1..Len(active) : active[i] \in agents
    THEN CHOOSE i \in 1..Len(active) :
            /\ active[i] \in agents
            /\ \A j \in 1..(i - 1) : active[j] \notin agents
    ELSE 0

\* the first position after `from` of an active character that has an agent
\* (`if character_id in self.character_agents`), 0 when there is none
NextAgentIndex(active, agents, from) ==
    IF \E i \in (from + 1)..Len(active) : active[i] \in agents
    THEN CHOOSE i \in (from + 1)..Len(active) :
            /\ active[i] \in agents
            /\ \A j \in (from + 1)..(i - 1) : active[j] \notin agents
    ELSE 0

\* the loop of _get_character_reactions moves on: to the next character agent's
\* provider call, or, after the last one, to the synthesis call (lines 358-462)
EnterCharacterStage(r, from) ==
    LET n == NextAgentIndex(req[r].active, orchs[req[r].orch].character_agents, from)
    IN IF n # 0
       THEN [req[r] EXCEPT !.pc = "CH", !.idx = n,
                           !.trace = Append(@, Call("Character", req[r].active[n]))]
       ELSE [req[r] EXCEPT !.pc = "SYN", !.idx = 0,
                           !.trace = Append(@, Call("Synthesis", 0))]

\* _get_relevant_memories returns; _get_character_reactions starts
MemoryCuratorReturns(r, response) ==
    /\ req[r].pc = "MC"
    /\ DOMAIN get_relevant_memories(req[r].user_input, response) # {}
    /\ IF TrackExitRaises(metrics, "get_relevant_memories", NoneV)
       THEN /\ FailContinuation(r, "Tracking", "KeyError")
            /\ UNCHANGED metrics
       ELSE /\ req' = [req EXCEPT ![r] = EnterCharacterStage(r, 0)]
            /\ metrics' = TrackEnter(metrics, "get_character_reactions", NoneV)
            /\ UNCHANGED <<sections, session>>
    /\ UNCHANGED <<ServiceVars, runs, stories, characters, changes, orchs, orchestrators, epoch, clears, resets>>

\* a character agent's run() returns or raises.  _get_character_reactions has no
\* error handler: a provider error leaves it, and the handler of
\* generate_story_continuation turns it into the story-continuation fallback.
\* After the last character _get_character_reactions returns through its
\* tracking wrapper.
CharacterReturns(r, response) ==
    /\ req[r].pc = "CH"
    /\ LET c == req[r].active[req[r].idx]
           next == EnterCharacterStage(r, req[r].idx)
       IN IF response.kind = "error"
          THEN FailContinuation(r, "Character", "provider")
          ELSE IF next.pc = "SYN" /\ TrackExitRaises(metrics, "get_character_reactions", NoneV)
          THEN FailContinuation(r, "Tracking", "KeyError")
          ELSE /\ req' = [req EXCEPT ![r] =
                    [next EXCEPT !.reactions = DictSet(@, c, CharacterAgent_process_response(response))]]
               /\ UNCHANGED <<sections, session>>
    /\ UNCHANGED <<ServiceVars, runs, stories, characters, changes, orchs, orchestrators, epoch, clears,
                   metrics, resets>>

\* the synthesis call returns or raises; then _update_story_state (line 465), the
\* return through agent_error_handler and the tracking wrapper, and
\* services/agents.py lines 47-63
SynthesisReturns(r, response) ==
    /\ req[r].pc = "SYN"
    /\ IF response.kind = "error"
       THEN /\ FailContinuation(r, "Synthesis", "provider")
            /\ UNCHANGED changes
       ELSE LET o == orchs[req[r].orch]
                story_sections == The(o.story_data).sections
                latest_section == IF story_sections = << >> THEN NoneV
                                  ELSE Some(story_sections[Len(story_sections)])
                order == SelectSeq(req[r].active, LAMBDA c : c \in DOMAIN req[r].reactions)
                st == UpdateStoryState(
                         [mem |-> LoadedTraits(o), raised |-> "", changes |-> << >>, calls |-> << >>],
                         order, req[r].reactions, latest_section, req[r].user_input)
                text == IF st.raised # ""
                        THEN story_continuation_fallback(st.raised, [user_input |-> req[r].user_input])
                        ELSE response.text
            IN /\ changes' = changes \o [i \in 1..Len(st.changes) |-> st.changes[i] @@ [run |-> r]]
               \* the objects the update wrote stay in the orchestrator's Session
               /\ EndContinuation(r, text, IF st.raised = "" THEN "" ELSE "StateUpdate",
                                  st.calls, Append(req[r].trace, Call("StateUpdate", 0)),
                                  [session EXCEPT ![o.owner] = Overlay(st.mem)])
    /\ UNCHANGED <<ServiceVars, runs, stories, characters, orchs, orchestrators, epoch, clears, metrics, resets>>

\* AgentService.generate_suggestions up to the provider call
\* (generate_story_suggestions lines 530-552)
StartSuggestions(r, story_id) ==
    /\ MayStart(r)
    /\ LET g == get_orchestrator(r, story_id)
           o == ensure_initialized(g.orchs[g.id])
           refreshed == [o EXCEPT !.story_data = get_story_data(story_id)]
           started == [IdleRequest EXCEPT !.op = "suggestions", !.story_id = story_id,
                                          !.orch = g.id]
       IN IF ~o.initialized
          THEN /\ orchs' = [g.orchs EXCEPT ![g.id] = o]
               /\ req' = [req EXCEPT ![r] = [started EXCEPT !.pc = "done",
                              !.result = Some(NotInitializedSuggestions), !.outcome = "ok"]]
          ELSE /\ orchs' = [g.orchs EXCEPT ![g.id] = refreshed]
               \* `if self.story_data and self.story_data.sections`
               /\ IF IsNone(refreshed.story_data) \/ The(refreshed.story_data).sections = << >>
                  THEN req' = [req EXCEPT ![r] = [started EXCEPT !.pc = "done",
                                  !.result = Some(NoSectionSuggestions), !.outcome = "ok"]]
                  ELSE req' = [req EXCEPT ![r] = [started EXCEPT !.pc = "SUG",
                                  !.trace = <<Call("NarrativeDirector", 0)>>]]
    /\ orchestrators' = get_orchestrator(r, story_id).cache
    /\ metrics' = TrackEnter(TrackInitialize(story_id), "generate_story_suggestions", NoneV)
    /\ UNCHANGED <<ServiceVars, runs, stories, characters, sections, changes, session, epoch, clears, resets>>

\* the narrative director returns or raises in generate_story_suggestions
\* (lines 554-567, or story_suggestions_fallback); the operation returns through
\* its tracking wrapper
SuggestionsReturns(r, response) ==
    /\ req[r].pc = "SUG"
    /\ IF TrackExitRaises(metrics, "generate_story_suggestions", NoneV)
       THEN req' = [req EXCEPT ![r].pc = "done",
                               ![r].ended = "Tracking",
                               ![r].result = NoneV,
                               ![r].outcome = "error"]
       ELSE \E suggestions \in
               (IF response.kind = "error"
                THEN {story_suggestions_fallback("provider", EmptyDict)}
                ELSE SuggestionsFromDirection(NarrativeDirectorAgent_process_response(response))) :
             req' = [req EXCEPT ![r].pc = "done",
                                ![r].ended = IF response.kind = "error" THEN "NarrativeDirector" ELSE "",
                                ![r].result = Some(suggestions),
                                ![r].outcome = "ok"]
    /\ UNCHANGED <<ServiceVars, runs, stories, characters, sections, changes, orchs, orchestrators, session,
                   epoch, clears, metrics, resets>>

\* the request is answered and its Session closed (database.get_db): the Session
\* drops its objects; the handler's locals are gone
CloseSession(r) ==
    /\ req[r].pc = "done"
    /\ req' = [req EXCEPT ![r] = ClosedRequest]
    /\ session' = [session EXCEPT ![r] = EmptyDict]
    /\ UNCHANGED <<ServiceVars, runs, stories, characters, sections, changes, orchs, orchestrators, epoch, clears,
                   metrics, resets>>

\* clear_orchestrator_cache(story_id) dropping every entry whatever the id
ClearEveryOrchestrator(story_id) ==
    /\ clears < MaxClears
    /\ clears' = clears + 1
    /\ orchestrators' = [id \in StoryIds |-> 0]
    /\ IF story_id # ""
       THEN epoch' = [epoch EXCEPT ![story_id] = @ + 1]
       ELSE epoch' = [id \in StoryIds |-> epoch[id] + 1]
    /\ UNCHANGED <<ServiceVars, runs, stories, characters, sections, changes, orchs, session, req, metrics, resets>>

\* clear_orchestrator_cache(story_id); "" stands for no story id (clear all)
ClearOrchestratorCache(story_id) ==
    /\ clears < MaxClears
    /\ clears' = clears + 1
    /\ IF story_id # ""
       THEN /\ orchestrators' = [orchestrators EXCEPT ![story_id] = 0]
            /\ epoch' = [epoch EXCEPT ![story_id] = @ + 1]
       ELSE /\ orchestrators' = [id \in StoryIds |-> 0]
            /\ epoch' = [id \in StoryIds |-> epoch[id] + 1]
    /\ UNCHANGED <<ServiceVars, runs, stories, characters, sections, changes, orchs, session, req, metrics, resets>>

\* monitoring.reset_metrics (POST /admin/metrics/reset): agent_metrics is rebound to
\* an empty structure
ResetMetrics ==
    /\ resets < MaxResets
    /\ resets' = resets + 1
    /\ metrics' = NoMetrics
    /\ agent_metrics' = EmptyMetrics
    /\ UNCHANGED <<events, participants, relationships, last_call, tracked>>
    /\ UNCHANGED <<runs, stories, characters, sections, changes, orchs, orchestrators, session, req,
                   epoch, clears>>

Next ==
    \/ \E r \in Requests, story_id \in StoryIds, user_input \in UserInputs :
          StartContinuation(r, story_id, user_input)
    \/ \E r \in Requests, response \in DirectorResponses : NarrativeDirectorReturns(r, response)
    \/ \E r \in Requests, response \in WorldResponses : WorldStateReturns(r, response)
    \/ \E r \in Requests, response \in MemoryResponses : MemoryCuratorReturns(r, response)
    \/ \E r \in Requests, response \in CharacterResponses : CharacterReturns(r, response)
    \/ \E r \in Requests, response \in SynthesisResponses : SynthesisReturns(r, response)
    \/ \E r \in Requests, story_id \in StoryIds : StartSuggestions(r, story_id)
    \/ \E r \in Requests, response \in SuggestionResponses : SuggestionsReturns(r, response)
    \/ \E r \in Requests : CloseSession(r)
    \/ \E story_id \in StoryIds \cup {""} : ClearOrchestratorCache(story_id)

\* the service without calls of the metrics-reset endpoint
Spec == Init /\ [][Next]_vars

NextWithReset ==
    \/ Next
    \/ ResetMetrics

\* the service with the metrics-reset endpoint
SpecWithReset == Init /\ [][NextWithReset]_vars

\* ------------------------------------------------- the agents on their own
\* An agent's run() and the fallback factories are functions of their arguments;
\* here they are called outside a request, with every response text and every
\* error, and each call is recorded with what it gave.
Variants == {"Character", "WorldState", "MemoryCurator", "NarrativeDirector"}

Errors == {"timeout", "rate limit"}

ArgMappings == {EmptyDict, [user_input |-> <<"r", "u", "n">>]}

\* texts JsonOutputParser rejects: one line, and several lines
UnparseableTexts == {<<"I cannot answer in JSON.">>, <<"Sure!", "Here is the reaction:">>}

AgentResponses(variant) ==
    {[kind |-> "unparseable", lines |-> t] : t \in UnparseableTexts} \cup
    CASE variant = "Character" -> CharacterResponses
      [] variant = "WorldState" -> WorldResponses
      [] variant = "MemoryCurator" -> MemoryResponses
      [] variant = "NarrativeDirector" -> DirectorResponses

\* the variant's _process_response
process_response(variant, response) ==
    CASE variant = "Character" -> CharacterAgent_process_response(response)
      [] variant = "WorldState" -> WorldStateAgent_process_response(response)
      [] variant = "MemoryCurator" -> MemoryCuratorAgent_process_response(response)
      [] variant = "NarrativeDirector" -> NarrativeDirectorAgent_process_response(response)

\* BaseAgent.run: llm.ainvoke raises, or its text goes through _process_response
Agent_run(variant, response) ==
    IF response.kind = "error"
    THEN [raised |-> "provider", result |-> EmptyDict]
    ELSE [raised |-> "", result |-> process_response(variant, response)]

\* the fallback factory written for the variant
fallback_factory(variant, error, args) ==
    CASE variant = "Character" -> character_agent_fallback(error, args)
      [] variant = "WorldState" -> world_state_fallback(error, args)
      [] variant = "MemoryCurator" -> memory_curator_fallback(error, args)
      [] variant = "NarrativeDirector" -> narrative_director_fallback(error, args)

MainVars == <<stories, characters, sections, changes, orchs, orchestrators, session, req,
              epoch, clears, metrics, resets>>

\* agent.run(input_data) with the provider answering `response`
AgentRun(variant, response) ==
    /\ Len(runs) < MaxRuns
    /\ LET out == Agent_run(variant, response)
       IN runs' = Append(runs, [op |-> "run", variant |-> variant, response |-> response,
                                error |-> "", args |-> EmptyDict,
                                raised |-> out.raised, result |-> out.result])
    /\ UNCHANGED <<MainVars, ServiceVars>>

\* agent_error_handler's wrapper calls fallback_factory(e, args_dict)
FallbackCalled(variant, error, args) ==
    /\ Len(runs) < MaxRuns
    /\ runs' = Append(runs, [op |-> "fallback", variant |-> variant, response |-> ProviderError,
                             error |-> error, args |-> args,
                             raised |-> "", result |-> fallback_factory(variant, error, args)])
    /\ UNCHANGED <<MainVars, ServiceVars>>

\* s[:n]
FirstN(s, n) == SubSeq(s, 1, IF Len(s) < n THEN Len(s) ELSE n)

\* s[-n:]
LastN(s, n) == SubSeq(s, IF Len(s) < n THEN 1 ELSE Len(s) - n + 1, Len(s))

\* what get_character_history returned: the i-th entry stands for the i-th change
\* of the list, with its change_description
HistoryLists == {[i \in 1..n |-> [change_description |-> i]] : n \in 0..MaxHistory}

\* _get_character_reactions lines 203-208: the descriptions of the last 10 changes
character_history(character_changes) ==
    LET last == LastN(character_changes, 10)
    IN [i \in 1..Len(last) |-> last[i].change_description]

\* CharacterAgent._format_input: the history block of the prompt, one line for each
\* of the last 5 entries, and no block for an empty history
format_history(history) ==
    IF history = << >>
    THEN [block |-> FALSE, lines |-> << >>]
    ELSE [block |-> TRUE, lines |-> LastN(history, 5)]

\* a character agent's prompt is built for a character with the given changes
CharacterPromptBuilt(character_changes) ==
    /\ Len(runs) < MaxRuns
    /\ runs' = Append(runs, [op |-> "prompt", variant |-> "Character",
                             response |-> ProviderError, error |-> "",
                             args |-> character_changes, raised |-> "",
                             result |-> format_history(character_history(character_changes))])
    /\ UNCHANGED <<MainVars, ServiceVars>>

\* option texts: one with a filler prefix, one that starts with no verb, one whose
\* first word only starts with the letters of a verb of the allowlist
NarrativeOptionTexts ==
    {OptGo.description, OptDoor.description,
     <<"R", "u", "n", "a", "w", "a", "y", " ", "d", "r", "o", "n", "e">>}

\* generate_story_suggestions lines 554-567 on what the narrative director's run()
\* gave for `response`
SuggestionsBuilt(response) ==
    /\ Len(runs) < MaxRuns
    /\ LET direction_output == Agent_run("NarrativeDirector", response).result
       IN \E suggestions \in SuggestionsFromDirection(direction_output) :
             runs' = Append(runs, [op |-> "suggestions", variant |-> "NarrativeDirector",
                                   response |-> response, error |-> "",
                                   args |-> direction_output,
                                   raised |-> "", result |-> suggestions])
    /\ UNCHANGED <<MainVars, ServiceVars>>

\* self._convert_to_action(narrative_option)
ConvertToAction(narrative_option) ==
    /\ Len(runs) < MaxRuns
    /\ \E action \in convert_to_action(narrative_option) :
          runs' = Append(runs, [op |-> "convert", variant |-> "NarrativeDirector",
                                response |-> [kind |-> "text", text |-> narrative_option],
                                error |-> "", args |-> EmptyDict,
                                raised |-> "", result |-> action])
    /\ UNCHANGED <<MainVars, ServiceVars>>

NextAgents ==
    \/ \E variant \in Variants : \E response \in AgentResponses(variant) :
          AgentRun(variant, response)
    \/ \E variant \in Variants, error \in Errors, args \in ArgMappings :
          FallbackCalled(variant, error, args)
    \/ \E response \in SuggestionResponses \ {ProviderError} : SuggestionsBuilt(response)
    \/ \E narrative_option \in NarrativeOptionTexts : ConvertToAction(narrative_option)
    \/ \E character_changes \in HistoryLists : CharacterPromptBuilt(character_changes)

\* the agents and the fallback factories called on their own
SpecAgents == Init /\ [][NextAgents]_vars

\* ------------------------------------------------- the event service
MaxEvents == 2         \* events created per behaviour
MaxCharacterId == 3    \* character ids a caller passes; the largest is never stored

\* the other variables, for the actions of the services
AgentVars == <<MainVars, runs>>

\* ids a caller may pass for an event and for a character, stored or not
EventInputs == 1..MaxEvents

CharacterInputs == 1..MaxCharacterId

Roles == {"witness", "protagonist"}

\* BaseService.get_by_id: the row with that id, or nothing for an id not stored
get_by_id(table, id) == IF id \in 1..Len(table) THEN Some(table[id]) ELSE NoneV

\* db.exec(select(Character).where(Character.id == id)).first()
SelectCharacter(rows, id) == IF id \in 1..Len(rows) THEN Some(rows[id]) ELSE NoneV

\* the select of add_character_to_event finding no row
SelectNoParticipant(rows, event_id, character_id) == {}

\* select(EventParticipant).where(event_id == ...).where(character_id == ...): the
\* ids of the rows selected
SelectParticipants(rows, event_id, character_id) ==
    {i \in 1..Len(rows) : rows[i].event_id = event_id /\ rows[i].character_id = character_id}

\* EventService.create_event: the row is stored; nothing is looked up
CreateEvent(story_id) ==
    /\ Len(events) < MaxEvents
    /\ events' = Append(events, [story_id |-> story_id])
    /\ last_call' = [op |-> "create_event", story_id |-> story_id, outcome |-> "ok",
                     result |-> Len(events) + 1]
    /\ UNCHANGED <<participants, relationships, agent_metrics, tracked, AgentVars>>

\* EventService.add_character_to_event under db_operation_handler, which answers a
\* ValueError with an HTTP error.  `.first()` gives one of the rows selected.
AddCharacterToEvent(event_id, character_id, role) ==
    LET args == [op |-> "add_character_to_event", event_id |-> event_id,
                 character_id |-> character_id, role |-> role]
        existing == SelectParticipants(participants, event_id, character_id)
    IN /\ IF IsNone(get_by_id(events, event_id)) \/ IsNone(SelectCharacter(characters, character_id))
          THEN /\ last_call' = args @@ [outcome |-> "error", result |-> 0]
               /\ UNCHANGED participants
          ELSE IF existing # {}
          THEN \E id \in existing :
                  /\ participants' = [participants EXCEPT ![id].role = role]
                  /\ last_call' = args @@ [outcome |-> "ok", result |-> id]
          ELSE /\ Len(participants) < MaxEvents * MaxCharacterId
               /\ participants' = Append(participants,
                     [event_id |-> event_id, character_id |-> character_id, role |-> role])
               /\ last_call' = args @@ [outcome |-> "ok", result |-> Len(participants) + 1]
       /\ UNCHANGED <<events, relationships, agent_metrics, tracked, AgentVars>>

NextEvents ==
    \/ \E story_id \in StoryIds : CreateEvent(story_id)
    \/ \E event_id \in EventInputs, character_id \in CharacterInputs, role \in Roles :
          AddCharacterToEvent(event_id, character_id, role)

\* the event service called on its own
SpecEvents == Init /\ [][NextEvents]_vars

\* ------------------------------------------ the relationship service
RelationshipTypes == {"friend", "enemy"}

\* the select looking from the first character to the second only
SelectRelationshipsFrom(rows, character1_id, character2_id) ==
    {i \in 1..Len(rows) :
        rows[i].source_character_id = character1_id /\ rows[i].target_character_id = character2_id}

\* the select of get_relationship_between_characters: the ids of the rows between
\* the two characters, in either direction
SelectRelationships(rows, character1_id, character2_id) ==
    {i \in 1..Len(rows) :
        \/ rows[i].source_character_id = character1_id /\ rows[i].target_character_id = character2_id
        \/ rows[i].source_character_id = character2_id /\ rows[i].target_character_id = character1_id}

\* RelationshipService.get_relationship_between_characters: whether a row was found
get_relationship_between_characters(rows, character1_id, character2_id) ==
    SelectRelationships(rows, character1_id, character2_id) # {}

\* RelationshipService.create_relationship under db_operation_handler
CreateRelationship(source_character_id, target_character_id, relationship_type) ==
    LET args == [op |-> "create_relationship", source_character_id |-> source_character_id,
                 target_character_id |-> target_character_id,
                 relationship_type |-> relationship_type]
    IN /\ IF \/ IsNone(SelectCharacter(characters, source_character_id))
             \/ IsNone(SelectCharacter(characters, target_character_id))
             \/ get_relationship_between_characters(relationships, source_character_id,
                                                    target_character_id)
          THEN /\ last_call' = args @@ [outcome |-> "error", result |-> 0]
               /\ UNCHANGED relationships
          ELSE /\ Len(relationships) < MaxCharacterId * MaxCharacterId
               /\ relationships' = Append(relationships,
                     [source_character_id |-> source_character_id,
                      target_character_id |-> target_character_id,
                      relationship_type |-> relationship_type])
               /\ last_call' = args @@ [outcome |-> "ok", result |-> Len(relationships) + 1]
       /\ UNCHANGED <<events, participants, agent_metrics, tracked, AgentVars>>

NextRelationships ==
    \E source_character_id \in CharacterInputs, target_character_id \in CharacterInputs,
       relationship_type \in RelationshipTypes :
          CreateRelationship(source_character_id, target_character_id, relationship_type)

\* the relationship service called on its own
SpecRelationships == Init /\ [][NextRelationships]_vars

\* ------------------------------------------- the tracking wrapper
MaxTracked == 2        \* tracked operations in flight together
MaxOperations == 3     \* tracked operations entered while the store counts fewer

\* the tracked operations as the wrapper sees them: generate_story_continuation is
\* called with the user input as second positional argument, which the wrapper
\* takes for the story id; _get_character_reactions is called with keyword
\* arguments and has no story id
TrackedCalls ==
    {[operation_name |-> "generate_story_continuation", story_id |-> Some(user_input)] :
        user_input \in UserInputs}
    \cup {[operation_name |-> "get_character_reactions", story_id |-> NoneV]}

\* whether an exception can leave the wrapped function: generate_story_continuation
\* has agent_error_handler inside the wrapper, _get_character_reactions has not
MayFail(operation_name) == operation_name = "get_character_reactions"

\* monitoring.py lines 51-72: the wrapper creates the entries it will count in
EnterMetrics(m, operation_name, story_id) ==
    LET m1 == [m EXCEPT
                  !.operation_times = IF HasKey(@, operation_name) THEN @
                                      ELSE DictSet(@, operation_name, 0),
                  !.error_counts = IF HasKey(@, operation_name) THEN @
                                   ELSE DictSet(@, operation_name, 0)]
    IN IF IsNone(story_id) THEN m1
       ELSE LET key == The(story_id)
                m2 == IF HasKey(m1.stories, key) THEN m1
                      ELSE [m1 EXCEPT !.stories = DictSet(@, key,
                               [operations |-> EmptyDict, total_operations |-> 0,
                                total_errors |-> 0])]
            IN IF HasKey(m2.stories[key].operations, operation_name) THEN m2
               ELSE [m2 EXCEPT !.stories[key].operations =
                        DictSet(@, operation_name, [count |-> 0, errors |-> 0])]

\* whether agent_metrics["stories"][story_id]["operations"][operation_name] exists
HasStoryEntry(m, operation_name, story_id) ==
    /\ HasKey(m.stories, The(story_id))
    /\ HasKey(m.stories[The(story_id)].operations, operation_name)

\* lines 81-92: the wrapped function raised.  A missing key raises KeyError at the
\* statement that reads it, after the statements before it have counted.
ExceptMetrics(m, operation_name, story_id) ==
    IF ~HasKey(m.error_counts, operation_name) THEN [metrics |-> m, raised |-> TRUE]
    ELSE LET m1 == [m EXCEPT !.error_counts[operation_name] = @ + 1,
                             !.total_errors = @ + 1]
         IN IF IsNone(story_id) THEN [metrics |-> m1, raised |-> FALSE]
            ELSE IF ~HasStoryEntry(m1, operation_name, story_id)
            THEN [metrics |-> m1, raised |-> TRUE]
            ELSE [metrics |-> [m1 EXCEPT
                                  !.stories[The(story_id)].operations[operation_name].errors = @ + 1,
                                  !.stories[The(story_id)].total_errors = @ + 1],
                  raised |-> FALSE]

\* lines 93-103: the `finally` block
FinallyMetrics(m, operation_name, story_id) ==
    IF ~HasKey(m.operation_times, operation_name) THEN [metrics |-> m, raised |-> TRUE]
    ELSE LET m1 == [m EXCEPT !.operation_times[operation_name] = @ + 1,
                             !.total_operations = @ + 1]
         IN IF IsNone(story_id) THEN [metrics |-> m1, raised |-> FALSE]
            ELSE IF ~HasStoryEntry(m1, operation_name, story_id)
            THEN [metrics |-> m1, raised |-> TRUE]
            ELSE [metrics |-> [m1 EXCEPT
                                  !.stories[The(story_id)].operations[operation_name].count = @ + 1,
                                  !.stories[The(story_id)].total_operations = @ + 1],
                  raised |-> FALSE]

\* lines 77-103: the wrapper is left; the `finally` block runs whatever happened
\* in the `except` block
ExitMetrics(m, operation_name, story_id, failed) ==
    LET e == IF failed THEN ExceptMetrics(m, operation_name, story_id)
             ELSE [metrics |-> m, raised |-> FALSE]
        f == FinallyMetrics(e.metrics, operation_name, story_id)
    IN [metrics |-> f.metrics, raised |-> e.raised \/ f.raised]

\* a tracked operation is called: the wrapper runs up to `await func(...)`
TrackedCallEnters(c) ==
    /\ Len(tracked) < MaxTracked
    /\ agent_metrics.total_operations + Len(tracked) < MaxOperations
    /\ tracked' = Append(tracked, c)
    /\ agent_metrics' = EnterMetrics(agent_metrics, c.operation_name, c.story_id)
    /\ last_call' = [op |-> "enter", operation_name |-> c.operation_name,
                     story_id |-> c.story_id]
    /\ UNCHANGED <<events, participants, relationships, AgentVars>>

\* the wrapped function of the i-th operation in flight returns or raises
TrackedCallReturns(i, failed) ==
    /\ i \in 1..Len(tracked)
    /\ failed => MayFail(tracked[i].operation_name)
    /\ LET c == tracked[i]
           exit == ExitMetrics(agent_metrics, c.operation_name, c.story_id, failed)
       IN /\ agent_metrics' = exit.metrics
          /\ last_call' = [op |-> "return", operation_name |-> c.operation_name,
                           story_id |-> c.story_id, failed |-> failed,
                           raised |-> exit.raised]
    /\ tracked' = [j \in 1..(Len(tracked) - 1) |-> IF j < i THEN tracked[j] ELSE tracked[j + 1]]
    /\ UNCHANGED <<events, participants, relationships, AgentVars>>

NextMetrics ==
    \/ \E c \in TrackedCalls : TrackedCallEnters(c)
    \/ \E i \in 1..MaxTracked, failed \in BOOLEAN : TrackedCallReturns(i, failed)
    \/ ResetMetrics

\* the tracking wrapper around operations that overlap, with resets of the store
SpecMetrics == Init /\ [][NextMetrics]_vars

TypeOK ==
    /\ \A r \in Requests : req[r].pc \in {"idle", "ND", "WS", "MC", "CH", "SYN", "SUG", "done", "closed"}
    /\ \A id \in StoryIds : orchestrators[id] \in 0..Len(orchs)
    /\ clears \in 0..MaxClears

\* ------------------------------------------------------------------ claims
\* the continuation runs that have returned and whose Session is still open
Continuations == {r \in Requests : req[r].op = "continuation" /\ req[r].pc = "done"}

\* of those, the runs of an initialized orchestrator on a stored story
PipelineRuns == {r \in Continuations : req[r].ended # "NotInitialized"}

Stages(r) == [i \in 1..Len(req[r].trace) |-> req[r].trace[i].stage]

Entered(r, stage) == \E i \in 1..Len(req[r].trace) : req[r].trace[i].stage = stage

SectionsOf(r) == {i \in 1..Len(sections) : sections[i].run = r}

CharactersOf(r) == {c \in 1..Len(characters) : characters[c].run = r}

ChangesOf(r, c) == {i \in 1..Len(changes) : changes[i].run = r /\ changes[i].character_id = c}

FallbackText(r) == story_continuation_fallback("provider", [user_input |-> req[r].user_input])

\* C1: the order values of the sections stored for a story are exactly 1..N, N the
\* number of its sections: no gap and no repeat, however the continuation requests
\* and their character-agent calls interleave.
C1_SectionOrdersExactly1toN ==
    \A id \in StoryIds :
        {sections[i].order : i \in SectionIds(sections, id)}
            = 1..Cardinality(SectionIds(sections, id))

\* two continuations on a story that started without sections, both with character
\* reactions and both returning the synthesis text; the one that started second
\* stored its section first
C1_Witness ==
    /\ Continuations = {1, 2}
    /\ The(req[1].result) \in SynthesisTexts /\ The(req[2].result) \in SynthesisTexts
    /\ req[1].story_id = "s1" /\ req[2].story_id = "s1"
    /\ \A i \in SectionIds(sections, "s1") : sections[i].run # 0
    /\ req[1].reactions # EmptyDict /\ req[2].reactions # EmptyDict
    /\ req[2].section # 0 /\ req[2].section < req[1].section
    /\ {sections[req[1].section].order, sections[req[2].section].order} = {1, 2}

\* C2 (as stated): every pipeline run makes the synthesis call, and unless that call
\* fails it runs the state update and returns the synthesis text; the
\* story-continuation fallback text is returned only when the synthesis call fails.
C2_StageFailureNeverAborts ==
    \A r \in PipelineRuns :
        /\ Entered(r, "Synthesis")
        /\ req[r].ended # "Synthesis" =>
              /\ Entered(r, "StateUpdate")
              /\ The(req[r].result) \in SynthesisTexts
        /\ The(req[r].result) = FallbackText(r) => req[r].ended = "Synthesis"

\* C3: no two orchestrators are constructed for one story id between two clears of
\* the cache: concurrent _get_orchestrator calls for a story get the same instance.
C3_OneOrchestratorPerStory ==
    \A i, j \in 1..Len(orchs) :
        (orchs[i].story_id = orchs[j].story_id /\ orchs[i].epoch = orchs[j].epoch) => i = j

\* two requests for the same story are in flight together and hold the same instance
C3_Witness ==
    /\ req[1].pc = "WS" /\ req[2].pc = "ND"
    /\ req[1].story_id = req[2].story_id
    /\ req[1].orch = req[2].orch
    /\ clears = 0

\* C4: a continuation on a story that had no character and no section before it
\* creates exactly one character, the Protagonist, and stores exactly one section,
\* of order 1.
C4_DefaultProtagonistAndFirstSection ==
    \A r \in Continuations :
        LET id == req[r].story_id
        IN (/\ id \in DOMAIN stories
            /\ \A c \in CharacterIds(characters, id) : characters[c].run = r
            /\ \A i \in SectionIds(sections, id) : sections[i].run = r)
           => /\ Cardinality(CharactersOf(r)) = 1
              /\ \A c \in CharactersOf(r) :
                    characters[c] = Protagonist(id) @@ [run |-> r]
              /\ Cardinality(SectionsOf(r)) = 1
              /\ \A i \in SectionsOf(r) : sections[i].order = 1

C4_Witness ==
    \E r \in PipelineRuns :
        /\ CharacterIds(characters, req[r].story_id) = CharactersOf(r)
        /\ SectionIds(sections, req[r].story_id) = SectionsOf(r)
        /\ CharactersOf(r) # {}
        /\ Entered(r, "StateUpdate")

\* C5: when the synthesis call fails the run returns the story-continuation fallback
\* text, which contains "What will you do next?", and the request stores exactly one
\* section, whose text is that fallback text: in every such run.
C5_SynthesisFailureStoresFallback ==
    \A r \in Continuations :
        req[r].ended = "Synthesis" =>
            /\ The(req[r].result) = FallbackText(r)
            /\ Contains(The(req[r].result), ClosingPrompt)
            /\ Cardinality(SectionsOf(r)) = 1
            /\ \A i \in SectionsOf(r) : sections[i].text = The(req[r].result)

C5_Witness ==
    \E r \in Continuations :
        /\ req[r].ended = "Synthesis"
        /\ req[r].section \in SectionsOf(r)
        /\ req[r].reactions # EmptyDict

\* C6 (as stated): in a run on a story with a prior section and one character whose
\* synthesis call succeeds, exactly one CharacterChange row for the character is
\* appended if its reaction has an `emotions` key, and none if it has not.
C6_OneChangeRowIffEmotions ==
    \A r \in PipelineRuns :
        (/\ Entered(r, "StateUpdate")
         /\ Len(req[r].active) = 1
         /\ req[r].active[1] \in DOMAIN req[r].reactions
         /\ \E i \in SectionIds(sections, req[r].story_id) : sections[i].run # r)
        => LET c == req[r].active[1]
           IN Cardinality(ChangesOf(r, c)) =
                 IF HasKey(req[r].reactions[c], "emotions") THEN 1 ELSE 0

\* C7 (as stated): for every update of a character the state updater makes, the
\* previous_traits recorded for the CharacterChange row are the character's traits
\* (nested emotions map included) immediately before the update and new_traits are
\* its traits immediately after, also when the character already had an emotions map.
C7_ChangeRowRecordsBeforeAndAfter ==
    \A r \in Continuations :
        \A k \in 1..Len(req[r].updates) :
            /\ req[r].updates[k].previous_traits = req[r].updates[k].before
            /\ req[r].updates[k].new_traits = req[r].updates[k].after

\* C8 (as stated): when a run has ended, either its new section and the change rows
\* of all its character updates are committed, or none of them is.
C8_RunCommitsAllOrNothing ==
    \A r \in Continuations :
        \/ /\ req[r].section # 0
           /\ \A k \in 1..Len(req[r].updates) : req[r].updates[k].committed
        \/ /\ req[r].section = 0
           /\ \A k \in 1..Len(req[r].updates) : ~req[r].updates[k].committed

ExpectedStages(r) ==
    <<"NarrativeDirector", "WorldState", "MemoryCurator">>
    \o [i \in 1..Len(req[r].active) |-> "Character"]
    \o <<"Synthesis", "StateUpdate">>

\* C10 (as stated): the calls of a run happen in the order NarrativeDirector,
\* WorldState, MemoryCurator, Character agents, synthesis, state update, one at a
\* time, and each active character's agent is called exactly once.
C10_StageOrderAndEachCharacterOnce ==
    \A r \in Requests :
        req[r].op = "continuation" /\ req[r].ended # "NotInitialized" =>
            /\ Len(Stages(r)) <= Len(ExpectedStages(r))
            /\ Stages(r) = SubSeq(ExpectedStages(r), 1, Len(Stages(r)))
            /\ r \in PipelineRuns =>
                  \A k \in 1..Len(req[r].active) :
                      Cardinality({i \in 1..Len(req[r].trace) :
                                      req[r].trace[i] = Call("Character", req[r].active[k])}) = 1

\* C11 (as stated): when the character update of the state update fails, the caller
\* of generate_story_continuation gets an error: the operation returns no value, and
\* in particular no fallback continuation text.
C11_StorageFailureSurfaced ==
    \A r \in PipelineRuns :
        req[r].ended = "StateUpdate" =>
            /\ IsNone(req[r].result)
            /\ req[r].outcome = "error"

\* C12 (as stated): an operation on a story that is not stored surfaces an
\* entity-not-found condition: it returns neither a degraded continuation nor
\* suggestions.
C12_MissingStorySurfaced ==
    \A r \in Requests :
        (req[r].pc = "done" /\ req[r].story_id \notin DOMAIN stories) =>
            /\ IsNone(req[r].result)
            /\ req[r].outcome = "not_found"

\* C13: a pipeline operation called for a story whose initialization fails returns its
\* fallback output (the request is answered at once, with no provider call), the
\* operation stores nothing (it writes characters and character changes only; the
\* section is AgentService's), and the orchestrator stays uninitialized, so that
\* the next call attempts the initialization again.
C13_FailedInitializationFallsBack ==
    \A r \in Requests :
        (req[r].pc \notin {"idle", "closed"} /\ req[r].story_id \notin DOMAIN stories) =>
            /\ req[r].pc = "done"
            /\ req[r].trace = << >>
            /\ req[r].result =
                  IF req[r].op = "continuation"
                  THEN Some(generate_fallback_response(req[r].user_input, NoneV))
                  ELSE Some(NotInitializedSuggestions)
            /\ CharactersOf(r) = {}
            /\ \A i \in 1..Len(changes) : changes[i].run # r
            /\ ~orchs[req[r].orch].initialized

\* a continuation and then a suggestions call on the same cached orchestrator of a
\* story that is not stored: both attempts fail, both calls return their fallback
C13_Witness ==
    /\ req[1].pc = "done" /\ req[1].op = "continuation"
    /\ req[2].pc = "done" /\ req[2].op = "suggestions"
    /\ req[1].story_id \notin DOMAIN stories
    /\ req[2].story_id = req[1].story_id
    /\ req[2].orch = req[1].orch
    /\ ~orchs[req[1].orch].initialized
    /\ req[1].ended = "NotInitialized"
    /\ req[2].result = Some(NotInitializedSuggestions)

\* C14 (as stated): no tracked operation ends with an outcome that the tracking
\* wrapper made: whatever reset_metrics does while the operation is in flight, the
\* operation returns or raises what its body returns or raises.
C14_TrackingNeverChangesOutcome ==
    \A r \in Requests : req[r].ended # "Tracking"

\* the calls of run() recorded so far whose response text could not be parsed
ParseFailures == {i \in 1..Len(runs) : runs[i].op = "run" /\ runs[i].response.kind = "unparseable"}

\* the fallback factory calls recorded so far
FallbackCalls == {i \in 1..Len(runs) : runs[i].op = "fallback"}

\* the typed fields of a variant's output
TypedFields(variant) ==
    CASE variant = "Character" -> {"dialogue", "emotions"}
      [] variant = "WorldState" -> {"world_effects", "physics_allowed"}
      [] variant = "MemoryCurator" -> {"selected_memories"}
      [] variant = "NarrativeDirector" -> {"selected_direction", "tension_level"}

\* C15 (as stated): for every variant, what run() gives on a response text that
\* cannot be parsed equals, in the variant's typed fields, what the variant's
\* fallback factory gives on a provider failure.
C15_ParseFailureDegradesLikeProviderFailure ==
    \A i \in ParseFailures : \A j \in FallbackCalls :
        runs[i].variant = runs[j].variant =>
            /\ runs[i].raised = ""
            /\ \A f \in TypedFields(runs[i].variant) : runs[i].result[f] = runs[j].result[f]

\* C16 (as stated): run() does not raise on a response text that cannot be parsed,
\* and what it returns is the same value for every such text of a variant.
C16_ParseFailureOutputIsStatic ==
    \A i \in ParseFailures :
        /\ runs[i].raised = ""
        /\ \A j \in ParseFailures :
              runs[i].variant = runs[j].variant => runs[i].result = runs[j].result

\* C17: whatever the error and the call arguments, memory_curator_fallback gives
\* selected_memories [], world_state_fallback gives physics_allowed true and no
\* consistency issue, narrative_director_fallback gives tension_level 5.0 and the
\* fixed selected_direction; two calls of one factory differ in `reasoning` at most.
C17_FallbackTypedFieldsFixed ==
    \A i \in FallbackCalls :
        /\ runs[i].variant = "MemoryCurator" => runs[i].result.selected_memories = << >>
        /\ runs[i].variant = "WorldState" =>
              /\ runs[i].result.physics_allowed = TRUE
              /\ runs[i].result.consistency_issues = << >>
        /\ runs[i].variant = "NarrativeDirector" =>
              /\ runs[i].result.tension_level = 50
              /\ runs[i].result.selected_direction = <<"Continue with the current narrative thread">>
        /\ \A j \in FallbackCalls :
              runs[i].variant = runs[j].variant =>
                  \A f \in DOMAIN runs[i].result \ {"reasoning"} :
                      runs[i].result[f] = runs[j].result[f]

\* world_state_fallback has been called for two different errors with two
\* different argument mappings, and the two results differ (in `reasoning`)
C17_Witness ==
    \E i \in FallbackCalls : \E j \in FallbackCalls :
        /\ runs[i].variant = "WorldState" /\ runs[j].variant = "WorldState"
        /\ runs[i].error # runs[j].error
        /\ runs[i].args # runs[j].args
        /\ runs[i].result # runs[j].result

\* the suggestion requests that have returned and whose Session is still open
SuggestionRuns == {r \in Requests : req[r].op = "suggestions" /\ req[r].pc = "done"}

\* C18 (as stated): a suggestions request that degraded, because the provider call
\* failed or because the orchestrator could not be initialized, returns exactly
\* "Explore your surroundings", "Talk to someone nearby", "Look for clues or useful items".
C18_DegradedSuggestionsAreFixedList ==
    \A r \in SuggestionRuns :
        (req[r].ended = "NarrativeDirector" \/ req[r].story_id \notin DOMAIN stories) =>
            req[r].result = Some(<< <<"Explore your surroundings">>,
                                    <<"Talk to someone nearby">>,
                                    <<"Look for clues or useful items">> >>)

\* the default characters: the rows generate_story_continuation created itself
DefaultCharacterIds == {c \in 1..Len(characters) : characters[c].run # 0}

\* C19 (as stated): a run on a story without characters has the default character
\* it created as its only active character; and in every run whose active character
\* is a default character and that has reached synthesis, that character's agent was
\* called exactly once and the reaction map has an entry for it.
C19_DefaultCharacterReacts ==
    \A r \in Requests :
        req[r].op = "continuation" =>
            /\ CharactersOf(r) # {} =>
                  /\ Len(req[r].active) = 1
                  /\ req[r].active[1] \in CharactersOf(r)
            /\ Entered(r, "Synthesis") =>
                  \A k \in 1..Len(req[r].active) :
                      req[r].active[k] \in DefaultCharacterIds =>
                          /\ Cardinality({i \in 1..Len(req[r].trace) :
                                req[r].trace[i] = Call("Character", req[r].active[k])}) = 1
                          /\ HasKey(req[r].reactions, req[r].active[k])

\* C20 (as stated): every call of update_character_traits that a continuation run
\* makes, and so every CharacterChange row of the run, names the section that this
\* same run persists; none names a section that was stored before the run.
C20_ChangesReferenceOwnSection ==
    \A r \in PipelineRuns :
        /\ \A k \in 1..Len(req[r].updates) :
              /\ req[r].section # 0
              /\ req[r].updates[k].section_id = req[r].section
        /\ \A i \in 1..Len(changes) :
              changes[i].run = r => changes[i].section_id = req[r].section

\* C21 (as stated): after a run, for every update the state updater made for a
\* reaction with emotions, the character's stored traits have the old emotions map
\* overwritten key by key with the reaction's, current_motivation from the reaction
\* if it has one, and every other trait key as before.
C21_StateUpdateMergesReaction ==
    \A r \in PipelineRuns :
        \A k \in 1..Len(req[r].updates) :
            LET c == req[r].updates[k].character_id
                reaction == req[r].reactions[c]
                old == req[r].updates[k].before
                now == characters[c].traits
                oldEmotions == IF HasKey(old, "emotions") THEN old.emotions ELSE EmptyDict
            IN /\ HasKey(now, "emotions")
               /\ now.emotions = DictUpdate(oldEmotions, reaction.emotions)
               /\ IF HasKey(reaction, "motivation")
                  THEN /\ HasKey(now, "current_motivation")
                       /\ now.current_motivation = reaction.motivation
                  ELSE /\ HasKey(now, "current_motivation") <=> HasKey(old, "current_motivation")
                       /\ HasKey(old, "current_motivation") =>
                             now.current_motivation = old.current_motivation
               /\ DOMAIN now \subseteq (DOMAIN old) \cup {"emotions", "current_motivation"}
               /\ \A key \in (DOMAIN old) \ {"emotions", "current_motivation"} :
                     /\ HasKey(now, key)
                     /\ now[key] = old[key]

\* C22 (as stated): when the state update of a run finds the story without a
\* section, no CharacterChange row is appended, no stored character changes, and no
\* loaded character object changes (a Session may only drop its objects).
C22_NoSectionSkipsUpdate ==
    [][\A r \in Requests :
          (/\ req[r].pc = "SYN"
           /\ req'[r].pc = "done"
           /\ req'[r].trace # req[r].trace
           /\ The(orchs[req[r].orch].story_data).sections = << >>)
          => /\ changes' = changes
             /\ characters' = characters
             /\ \A q \in Requests : session'[q] \in {session[q], EmptyDict}]_vars

\* C23 (as stated): whatever the provider answered, what an agent's run() hands
\* back carries `reasoning`, `action` and every typed field of its variant.
C23_StageOutputNeverPartial ==
    \A i \in 1..Len(runs) :
        (runs[i].op = "run" /\ runs[i].raised = "") =>
            {"reasoning", "action"} \cup TypedFields(runs[i].variant) \subseteq DOMAIN runs[i].result

\* how often a run has entered the call `call`
Calls(r, call) == Cardinality({i \in 1..Len(req[r].trace) : req[r].trace[i] = call})

\* C25: within one continuation run the provider is called at most once by each of
\* NarrativeDirector, WorldState and MemoryCurator, at most once for each active
\* character's agent and at most once for synthesis, also after a call has failed.
C25_NoProviderCallRepeated ==
    \A r \in Requests :
        req[r].op = "continuation" =>
            /\ \A stage \in {"NarrativeDirector", "WorldState", "MemoryCurator", "Synthesis"} :
                  Calls(r, Call(stage, 0)) <= 1
            /\ \A c \in 1..Len(characters) : Calls(r, Call("Character", c)) <= 1
            /\ \A i \in 1..Len(req[r].trace) :
                  req[r].trace[i].stage = "Character" =>
                      \E k \in 1..Len(req[r].active) : req[r].active[k] = req[r].trace[i].arg

\* a run whose second character agent's provider call failed has ended, and a run
\* whose synthesis call failed has ended: every call was made once
C25_Witness ==
    \E r \in Continuations : \E q \in Continuations :
        /\ req[r].ended = "Character"
        /\ Stages(r) = <<"NarrativeDirector", "WorldState", "MemoryCurator", "Character", "Character">>
        /\ req[q].ended = "Synthesis"
        /\ Calls(q, Call("Synthesis", 0)) = 1

\* C26: in the step in which an orchestrator's initialize() succeeds, the orchestrator
\* gets a NarrativeDirector, a WorldState and a MemoryCurator agent and character
\* agents whose key set is the set of ids of the characters the story has then.
C26_InitializeBuildsOneAgentPerCharacter ==
    [][\A id \in 1..Len(orchs') :
          (/\ orchs'[id].initialized
           /\ (id > Len(orchs) \/ ~orchs[id].initialized))
          => /\ orchs'[id].character_agents = CharacterIds(characters, orchs'[id].story_id)
             /\ orchs'[id].narrative_director_agent
             /\ orchs'[id].world_state_agent
             /\ orchs'[id].memory_curator_agent]_vars

\* an orchestrator was initialized for a story with two characters and holds the two
\* character agents
C26_Witness ==
    \E id \in 1..Len(orchs) :
        /\ orchs[id].initialized
        /\ Cardinality(orchs[id].character_agents) = 2
        /\ orchs[id].character_agents = CharacterIds(characters, orchs[id].story_id)

\* the rows of a table that belong to story `id`, by row id
RowsOfStory(table, id) ==
    [i \in {j \in 1..Len(table) : table[j].story_id = id} |-> table[i]]

\* the change rows of the characters of story `id`
ChangesOfStory(id) ==
    [i \in {j \in 1..Len(changes) : characters[changes[j].character_id].story_id = id}
        |-> changes[i]]

\* what the cache holds for story `id`: 0, or the orchestrator
CachedOrchestrator(id) ==
    IF orchestrators[id] = 0 THEN NoneV ELSE Some(orchs[orchestrators[id]])

\* C27: a step of a continuation on one story leaves the sections, the characters and
\* the change rows of every other story as they are, and the orchestrator cached
\* for every other story too.
C27_ContinuationLeavesOtherStoriesAlone ==
    [][\A r \in Requests :
          (req'[r] # req[r] /\ (req[r].op = "continuation" \/ req'[r].op = "continuation"))
          => LET own == IF req'[r].op = "continuation" THEN req'[r].story_id
                        ELSE req[r].story_id
             IN \A id \in StoryIds \ {own} :
                   /\ RowsOfStory(sections', id) = RowsOfStory(sections, id)
                   /\ RowsOfStory(characters', id) = RowsOfStory(characters, id)
                   /\ ChangesOfStory(id)' = ChangesOfStory(id)
                   /\ CachedOrchestrator(id)' = CachedOrchestrator(id)]_vars

\* two continuations on two stored stories have overlapped: the one that started
\* first stored its section last; both stories got their section and the story
\* without characters its default character
C27_Witness ==
    \E r \in Continuations : \E q \in Continuations :
        /\ req[r].story_id # req[q].story_id
        /\ req[r].story_id \in DOMAIN stories /\ req[q].story_id \in DOMAIN stories
        /\ req[r].orch < req[q].orch
        /\ req[q].section # 0
        /\ req[q].section < req[r].section
        /\ CharactersOf(q) # {} \/ CharactersOf(r) # {}

\* C28: whatever the interleaving of the requests, a story has at most one default
\* character, and when it has one it has no other character.
C28_OneDefaultCharacterPerStory ==
    \A id \in StoryIds :
        LET defaults == {c \in DefaultCharacterIds : characters[c].story_id = id}
        IN /\ Cardinality(defaults) <= 1
           /\ defaults # {} => CharacterIds(characters, id) = defaults

\* two continuations on one story that had no character are in flight together, and
\* both have the one default character as their active character
C28_Witness ==
    \E r \in Requests : \E q \in Requests :
        /\ r # q
        /\ req[r].op = "continuation" /\ req[q].op = "continuation"
        /\ req[r].story_id = req[q].story_id
        /\ req[r].pc \in {"ND", "WS", "MC", "SYN"} /\ req[q].pc \in {"ND", "WS", "MC", "SYN"}
        /\ req[r].active = req[q].active
        /\ Len(req[r].active) = 1
        /\ req[r].active[1] \in CharactersOf(r)

\* the calls recorded so far that built a suggestion list from a director output
SuggestionCalls == {i \in 1..Len(runs) : runs[i].op = "suggestions"}

\* the options of a director output that have a description, in their order
UsableOptions(direction_output) ==
    IF HasKey(direction_output, "narrative_options")
    THEN SelectSeq(direction_output.narrative_options, LAMBDA o : HasKey(o, "description"))
    ELSE << >>

FirstWord(s) ==
    IF \E i \in 1..Len(s) : s[i] = " "
    THEN SubSeq(s, 1, (CHOOSE i \in 1..Len(s) :
                          /\ s[i] = " "
                          /\ \A j \in 1..(i - 1) : s[j] # " ") - 1)
    ELSE s

\* C30 (as stated): the first word of what _convert_to_action returns is a verb of
\* the allowlist or the first word of a verb of the alternatives list.
C30_SuggestionIsVerbLed ==
    \A i \in 1..Len(runs) :
        runs[i].op = "convert" =>
            LET word == FirstWord(runs[i].result)
            IN \/ \E v \in 1..Len(VerbAllowlist) : LowerStr(word) = VerbAllowlist[v]
               \/ \E v \in 1..Len(AlternativeVerbs) : word = FirstWord(AlternativeVerbs[v])

\* `piece` occurs in `text` as a run of consecutive elements
ContainsSeq(text, piece) ==
    \E i \in 1..(Len(text) - Len(piece) + 1) : SubSeq(text, i, i + Len(piece) - 1) = piece

\* C31 (as stated): every degraded text a continuation returns (a stage or the state
\* update failed, or the orchestrator could not be initialized) contains the user's
\* input lower-cased without a leading "I ", and ends with "What will you do next?".
C31_DegradedTextEchoesInputAndEndsWithPrompt ==
    \A r \in Continuations :
        (req[r].ended \in {"NotInitialized", "Character", "Synthesis", "StateUpdate"}
         /\ ~IsNone(req[r].result)) =>
            LET text == The(req[r].result)
            IN /\ ContainsSeq(text, EchoInput(req[r].user_input))
               /\ text # << >>
               /\ text[Len(text)] = "What will you do next?"

\* the prompts built so far
PromptCalls == {i \in 1..Len(runs) : runs[i].op = "prompt"}

\* C32: the history block of a character agent's prompt lists exactly the last
\* min(5, n) of the character's n change descriptions, in their order, and there is
\* no block when n = 0.
C32_PromptHistoryIsLastFive ==
    \A i \in PromptCalls :
        LET n == Len(runs[i].args)
            m == IF n < 5 THEN n ELSE 5
        IN /\ runs[i].result.block = (n > 0)
           /\ runs[i].result.lines = [k \in 1..m |-> runs[i].args[n - m + k].change_description]

\* a prompt was built for a character with 12 changes (more than the orchestrator
\* supplies) and lists changes 8..12; another for a character with 3 changes lists
\* all three
C32_Witness ==
    \E i \in PromptCalls : \E j \in PromptCalls :
        /\ Len(runs[i].args) = 12
        /\ runs[i].result.lines = <<8, 9, 10, 11, 12>>
        /\ Len(runs[j].args) = 3
        /\ runs[j].result.lines = <<1, 2, 3>>

\* the orchestrator with id `id` before the step, as constructed when the step
\* constructs it
OrchestratorBefore(id) ==
    IF id <= Len(orchs) THEN orchs[id]
    ELSE NewOrchestrator(orchs'[id].story_id, orchs'[id].owner, orchs'[id].epoch)

\* C33: after every step an initialized orchestrator has its story data and its
\* NarrativeDirector, WorldState and MemoryCurator agents; an initialized orchestrator
\* stays initialized; and an orchestrator becomes initialized only in a step in which
\* its story is stored and it is what initialize() makes of it.
C33_InitializedMonotonicAndGuarded ==
    [][\A id \in 1..Len(orchs') :
          /\ orchs'[id].initialized
                => /\ ~IsNone(orchs'[id].story_data)
                   /\ orchs'[id].narrative_director_agent
                   /\ orchs'[id].world_state_agent
                   /\ orchs'[id].memory_curator_agent
          /\ (id <= Len(orchs) /\ orchs[id].initialized) => orchs'[id].initialized
          /\ (orchs'[id].initialized /\ ~OrchestratorBefore(id).initialized)
                => /\ ~IsNone(get_story_data(orchs'[id].story_id))
                   /\ orchs'[id] = initialize(OrchestratorBefore(id))]_vars

\* an initialized orchestrator has served a continuation to its end and had its
\* story data refreshed with the stored section, and another orchestrator, of a
\* story that is not stored, has stayed uninitialized
C33_Witness ==
    \E r \in Continuations : \E id \in 1..Len(orchs) :
        /\ req[r].pc = "done" /\ req[r].section # 0
        /\ orchs[req[r].orch].initialized
        /\ ~IsNone(orchs[req[r].orch].story_data)
        /\ ~orchs[id].initialized
        /\ IsNone(orchs[id].story_data)
        /\ ~orchs[id].narrative_director_agent

\* the stories a step's clear_orchestrator_cache covered
Cleared == {id \in StoryIds : epoch'[id] # epoch[id]}

\* C34: a clear_orchestrator_cache for one story drops that story's cache entry and
\* leaves the other entries and every orchestrator as they are; a request that
\* starts when its story has no entry gets an orchestrator constructed and put
\* through initialize() in that step, which becomes the story's entry; a request
\* that starts when its story has an entry gets that instance and nothing is
\* constructed.
C34_ClearDropsOneEntryAndNextCallBuildsAnew ==
    [][/\ Cardinality(Cleared) = 1
            => /\ \A id \in Cleared : orchestrators'[id] = 0
               /\ \A id \in StoryIds \ Cleared : orchestrators'[id] = orchestrators[id]
               /\ orchs' = orchs
       /\ \A r \in Requests :
            (req[r].pc = "idle" /\ req'[r].pc # "idle")
            => LET id == req'[r].story_id
               IN /\ \A other \in StoryIds \ {id} : orchestrators'[other] = orchestrators[other]
                  /\ orchestrators'[id] = req'[r].orch
                  /\ IF orchestrators[id] = 0
                     THEN /\ req'[r].orch = Len(orchs) + 1
                          /\ Len(orchs') = Len(orchs) + 1
                          /\ orchs'[req'[r].orch].epoch = epoch[id]
                          /\ orchs'[req'[r].orch].initialized = (id \in DOMAIN stories)
                     ELSE /\ req'[r].orch = orchestrators[id]
                          /\ Len(orchs') = Len(orchs)]_vars

\* two stories had a cached orchestrator each, the cache was cleared for the first
\* one, whose entry is gone while the other story's entry is still there
C34_Witness ==
    \E r \in Requests : \E q \in Requests :
        /\ req[r].story_id \in StoryIds /\ req[q].story_id \in StoryIds
        /\ req[r].story_id # req[q].story_id
        /\ epoch[req[r].story_id] = 1 /\ epoch[req[q].story_id] = 0
        /\ orchestrators[req[r].story_id] = 0
        /\ orchestrators[req[q].story_id] = req[q].orch
        /\ req[q].orch # 0

\* C35: after every call of add_character_to_event an event has at most one
\* participant row per character; a call for a missing event or a missing character
\* ends in an error and leaves the rows as they are; a call for a character that
\* participates already changes the role of that row and nothing else; any other
\* call appends one row with the role given.
C35_OneParticipantRowPerCharacter ==
    [][last_call'.op = "add_character_to_event" =>
         LET event_id == last_call'.event_id
             character_id == last_call'.character_id
             before == {i \in 1..Len(participants) :
                           /\ participants[i].event_id = event_id
                           /\ participants[i].character_id = character_id}
         IN /\ \A i, j \in 1..Len(participants') :
                  (/\ participants'[i].event_id = participants'[j].event_id
                   /\ participants'[i].character_id = participants'[j].character_id) => i = j
            /\ IF event_id \notin 1..Len(events) \/ character_id \notin 1..Len(characters)
               THEN /\ participants' = participants
                    /\ last_call'.outcome = "error"
               ELSE /\ last_call'.outcome = "ok"
                    /\ IF before # {}
                       THEN participants' =
                               [i \in 1..Len(participants) |->
                                   IF i \in before
                                   THEN [participants[i] EXCEPT !.role = last_call'.role]
                                   ELSE participants[i]]
                       ELSE participants' = Append(participants,
                               [event_id |-> event_id, character_id |-> character_id,
                                role |-> last_call'.role])]_vars

\* two characters participate in an event, and the last call gave the first of them,
\* who participated already, another role than the second has: its row has the new
\* role and there are still two rows
C35_Witness ==
    /\ last_call.op = "add_character_to_event"
    /\ last_call.outcome = "ok"
    /\ Len(participants) = 2
    /\ last_call.result = 1
    /\ participants[1].event_id = participants[2].event_id
    /\ participants[1].role = last_call.role
    /\ participants[2].role # last_call.role

\* the unordered pair of characters of a relationship row
Pair(row) == {row.source_character_id, row.target_character_id}

\* C36: after every call of create_relationship there is at most one relationship
\* between any unordered pair of characters; a call whose source or target character
\* is missing, or whose pair has a relationship in either direction, ends in an error
\* and leaves the rows as they are; any other call appends the relationship.
C36_OneRelationshipPerPair ==
    [][last_call'.op = "create_relationship" =>
         LET source == last_call'.source_character_id
             target == last_call'.target_character_id
         IN /\ \A i, j \in 1..Len(relationships') :
                  Pair(relationships'[i]) = Pair(relationships'[j]) => i = j
            /\ IF \/ source \notin 1..Len(characters)
                  \/ target \notin 1..Len(characters)
                  \/ \E i \in 1..Len(relationships) : Pair(relationships[i]) = {source, target}
               THEN /\ relationships' = relationships
                    /\ last_call'.outcome = "error"
               ELSE /\ last_call'.outcome = "ok"
                    /\ relationships' = Append(relationships,
                          [source_character_id |-> source, target_character_id |-> target,
                           relationship_type |-> last_call'.relationship_type])]_vars

\* a relationship from one character to another is stored and the last call, for
\* the same two characters the other way round, was rejected
C36_Witness ==
    /\ last_call.op = "create_relationship"
    /\ last_call.outcome = "error"
    /\ last_call.source_character_id # last_call.target_character_id
    /\ \E i \in 1..Len(relationships) :
          /\ relationships[i].source_character_id = last_call.target_character_id
          /\ relationships[i].target_character_id = last_call.source_character_id
    /\ \A i \in 1..Len(relationships) :
          ~ /\ relationships[i].source_character_id = last_call.source_character_id
            /\ relationships[i].target_character_id = last_call.target_character_id

RECURSIVE SumOf(_)
\* the sum of the values of a dict of numbers
SumOf(d) ==
    IF DOMAIN d = {} THEN 0
    ELSE LET k == CHOOSE x \in DOMAIN d : TRUE
         IN d[k] + SumOf([x \in DOMAIN d \ {k} |-> d[x]])

\* C37 (as stated): after every step total_operations is the number of timings
\* recorded over all operations and total_errors the sum of the error counts of the
\* operations; the return of a tracked call, successful or failed, adds exactly one
\* timing, and the return of a failed call adds exactly one error.
C37_TotalsMatchAndEachCallCountsOnce ==
    [][/\ agent_metrics'.total_operations = SumOf(agent_metrics'.operation_times)
       /\ agent_metrics'.total_errors = SumOf(agent_metrics'.error_counts)
       /\ Len(tracked') < Len(tracked)
            => /\ SumOf(agent_metrics'.operation_times) = SumOf(agent_metrics.operation_times) + 1
               /\ last_call'.failed
                    => SumOf(agent_metrics'.error_counts) = SumOf(agent_metrics.error_counts) + 1]_vars

====
